---- MODULE Spec2Model ----
(***************************************************************************)
(* flyr: the query encoder (src/src/proto.rs), the query validator and     *)
(* transport parameters (src/src/query.rs).                                *)
(*                                                                         *)
(* A Rust String / &str is modelled as the sequence of its UTF-8 bytes     *)
(* (naturals 0..255), a Vec<u8> likewise.  Option<T> is modelled as a      *)
(* sequence of length 0 (None) or 1 (Some).  A u32 that takes part in      *)
(* width-sensitive arithmetic is a pair of 16-bit limbs [hi, lo].          *)
(***************************************************************************)
EXTENDS Integers, Sequences, FiniteSets, TLC

(***************************************************************************)
(* Text literals                                                           *)
(***************************************************************************)

\* The printable ASCII characters, 32 (space) .. 126 (~), in code order
\* (the grave accent, 96, is written out: it cannot stand in a string here).
Printable ==
    << " ", "!", "\"", "#", "$", "%", "&", "'", "(", ")", "*", "+", ",", "-", ".", "/",
       "0", "1", "2", "3", "4", "5", "6", "7", "8", "9", ":", ";", "<", "=", ">", "?",
       "@", "A", "B", "C", "D", "E", "F", "G", "H", "I", "J", "K", "L", "M", "N", "O",
       "P", "Q", "R", "S", "T", "U", "V", "W", "X", "Y", "Z", "[", "\\", "]", "^", "_",
       "GRAVE", "a", "b", "c", "d", "e", "f", "g", "h", "i", "j", "k", "l", "m", "n", "o",
       "p", "q", "r", "s", "t", "u", "v", "w", "x", "y", "z", "{", "|", "}", "~" >>

\* The byte of a printable ASCII character.
AsciiCode(ch) == 31 + (CHOOSE i \in 1..Len(Printable) : Printable[i] = ch)

\* The UTF-8 bytes of a string literal given character by character.
Text(chars) == [i \in 1..Len(chars) |-> AsciiCode(chars[i])]

\* Option<T>
None == << >>
Some(v) == << v >>
IsSome(o) == Len(o) = 1
Unwrap(o) == o[1]

(***************************************************************************)
(* u32 arithmetic on 16-bit limbs: the value of [hi, lo] is                *)
(* hi * 65536 + lo, 0 <= hi, lo < 65536.                                   *)
(***************************************************************************)

Limb == 256 * 256

U32(n) == [hi |-> n \div Limb, lo |-> n % Limb]

\* a + b: the wrapped sum (mod 2^32) and whether the true sum left the range.
U32Add(a, b) ==
    LET lo == a.lo + b.lo
        hi == a.hi + b.hi + (lo \div Limb)
    IN  [overflow |-> hi >= Limb, value |-> [hi |-> hi % Limb, lo |-> lo % Limb]]

\* a * 10 + d for a decimal digit d, checked (as checked_mul, checked_add).
U32MulAdd10(a, d) ==
    LET lo == a.lo * 10 + d
        hi == a.hi * 10 + (lo \div Limb)
    IN  [overflow |-> hi >= Limb, value |-> [hi |-> hi % Limb, lo |-> lo % Limb]]

U32Less(a, b) == a.hi < b.hi \/ (a.hi = b.hi /\ a.lo < b.lo)

\* u32::is_multiple_of
U32IsMultipleOf(a, m) == ((a.hi % m) * (Limb % m) + (a.lo % m)) % m = 0

(***************************************************************************)
(* proto.rs: varint / tag primitives and the encoder                       *)
(***************************************************************************)

\* fn encode_varint(mut value: u64, buf: &mut Vec<u8>): the buffer after the call.
RECURSIVE encode_varint(_, _)
encode_varint(value, buf) ==
    LET byte == value % 128
        rest == value \div 128
    IN  IF rest = 0 THEN Append(buf, byte)
        ELSE encode_varint(rest, Append(buf, byte + 128))

\* fn encode_tag: (field << 3) | wire_type, as a varint.
encode_tag(field, wire_type, buf) == encode_varint(field * 8 + wire_type, buf)

\* fn encode_string: tag with wire type 2, byte length, bytes.
encode_string(field, s, buf) ==
    encode_varint(Len(s), encode_tag(field, 2, buf)) \o s

\* A mutation of encode_submessage: the length is written as one byte.
encode_submessage_one_byte(field, inner, buf) ==
    Append(encode_tag(field, 2, buf), Len(inner) % 256) \o inner

\* fn encode_submessage: tag with wire type 2, byte length, bytes.
encode_submessage(field, inner, buf) ==
    encode_varint(Len(inner), encode_tag(field, 2, buf)) \o inner

\* fn encode_airport
encode_airport(code) == encode_string(2, code, << >>)

\* The loop "for airline in airlines { encode_string(6, airline, &mut buf) }".
RECURSIVE encode_airlines(_, _)
encode_airlines(airlines, buf) ==
    IF airlines = << >> THEN buf
    ELSE encode_airlines(Tail(airlines), encode_string(6, Head(airlines), buf))

\* A mutation of encode_flight_data: Some(0) max-stops is skipped like None.
encode_flight_data_skip0(leg) ==
    LET b1 == encode_string(2, leg.date, << >>)
        b2 == IF IsSome(leg.max_stops) /\ Unwrap(leg.max_stops) # 0
              THEN encode_varint(Unwrap(leg.max_stops), encode_tag(5, 0, b1))
              ELSE b1
        b3 == IF IsSome(leg.airlines)
              THEN encode_airlines(Unwrap(leg.airlines), b2)
              ELSE b2
        b4 == encode_submessage(13, encode_airport(leg.from_airport), b3)
    IN  encode_submessage(14, encode_airport(leg.to_airport), b4)

\* fn encode_flight_data
encode_flight_data(leg) ==
    LET b1 == encode_string(2, leg.date, << >>)
        b2 == IF IsSome(leg.max_stops)
              THEN encode_varint(Unwrap(leg.max_stops), encode_tag(5, 0, b1))
              ELSE b1
        b3 == IF IsSome(leg.airlines)
              THEN encode_airlines(Unwrap(leg.airlines), b2)
              ELSE b2
        b4 == encode_submessage(13, encode_airport(leg.from_airport), b3)
    IN  encode_submessage(14, encode_airport(leg.to_airport), b4)

\* fn seat_to_varint
seat_to_varint(seat) ==
    CASE seat = "Economy" -> 1
      [] seat = "PremiumEconomy" -> 2
      [] seat = "Business" -> 3
      [] seat = "First" -> 4

\* fn trip_to_varint
trip_to_varint(trip) ==
    CASE trip = "RoundTrip" -> 1
      [] trip = "OneWay" -> 2
      [] trip = "MultiCity" -> 3

\* std::iter::repeat_n(v, n) collected
repeat_n(v, n) == [i \in 1..n |-> v]

\* A mutation of passengers_to_enums: children are written before adults.
passengers_to_enums_swapped(p) ==
    repeat_n(2, p.children) \o repeat_n(1, p.adults)
        \o repeat_n(3, p.infants_in_seat) \o repeat_n(4, p.infants_on_lap)

\* fn passengers_to_enums
passengers_to_enums(p) ==
    repeat_n(1, p.adults) \o repeat_n(2, p.children)
        \o repeat_n(3, p.infants_in_seat) \o repeat_n(4, p.infants_on_lap)

\* A mutation of encode_legs: the legs are written last to first.
RECURSIVE encode_legs_reversed(_, _)
encode_legs_reversed(legs, buf) ==
    IF legs = << >> THEN buf
    ELSE encode_legs_reversed(SubSeq(legs, 1, Len(legs) - 1),
             encode_submessage(3, encode_flight_data(legs[Len(legs)]), buf))

\* The loop "for leg in legs { encode_submessage(3, &encode_flight_data(leg), &mut buf) }".
RECURSIVE encode_legs(_, _)
encode_legs(legs, buf) ==
    IF legs = << >> THEN buf
    ELSE encode_legs(Tail(legs), encode_submessage(3, encode_flight_data(Head(legs)), buf))

\* The loop "for v in &pax { encode_varint(*v, &mut packed) }": the varints of
\* the values, first to last, appended to packed.  Each call only appends, so
\* the bytes of a list are those of its first half followed by those of its
\* second half, which keeps the evaluation of a long list shallow.
RECURSIVE packed_bytes(_)
packed_bytes(vals) ==
    IF vals = << >> THEN << >>
    ELSE IF Len(vals) = 1 THEN encode_varint(vals[1], << >>)
    ELSE LET h == Len(vals) \div 2
         IN  packed_bytes(SubSeq(vals, 1, h)) \o packed_bytes(SubSeq(vals, h + 1, Len(vals)))

encode_packed(vals, packed) == packed \o packed_bytes(vals)

\* A mutation of encode: the cabin field is written after the trip field.
encode_trip_first(legs, passengers, seat, trip) ==
    LET b1 == encode_legs(legs, << >>)
        pax == passengers_to_enums(passengers)
        packed == encode_packed(pax, << >>)
        b2 == IF pax # << >>
              THEN encode_varint(Len(packed), encode_tag(8, 2, b1)) \o packed
              ELSE b1
        b3 == encode_varint(trip_to_varint(trip), encode_tag(19, 0, b2))
    IN  encode_varint(seat_to_varint(seat), encode_tag(9, 0, b3))

\* pub fn encode
encode(legs, passengers, seat, trip) ==
    LET b1 == encode_legs(legs, << >>)
        pax == passengers_to_enums(passengers)
        packed == encode_packed(pax, << >>)
        b2 == IF pax # << >>
              THEN encode_varint(Len(packed), encode_tag(8, 2, b1)) \o packed
              ELSE b1
        b3 == encode_varint(seat_to_varint(seat), encode_tag(9, 0, b2))
    IN  encode_varint(trip_to_varint(trip), encode_tag(19, 0, b3))

(***************************************************************************)
(* base64 (STANDARD engine: RFC 4648 alphabet, '=' padding)                *)
(***************************************************************************)

\* The character of a 6-bit value in the standard alphabet.
B64Char(i) ==
    IF i < 26 THEN 65 + i
    ELSE IF i < 52 THEN 97 + (i - 26)
    ELSE IF i < 62 THEN 48 + (i - 52)
    ELSE IF i = 62 THEN 43
    ELSE 47

B64Pad == 61

\* STANDARD.encode(bytes): each group of three bytes gives four characters; a
\* last group of one or two bytes is completed with zero bits and padded.
base64_encode(bytes) ==
    LET n == Len(bytes)
        byte(k) == IF k <= n THEN bytes[k] ELSE 0
        char(g, j) ==
            LET b1 == byte(3 * g - 2)
                b2 == byte(3 * g - 1)
                b3 == byte(3 * g)
            IN  CASE j = 1 -> B64Char(b1 \div 4)
                  [] j = 2 -> B64Char((b1 % 4) * 16 + b2 \div 16)
                  [] j = 3 -> IF 3 * g - 1 > n THEN B64Pad
                              ELSE B64Char((b2 % 16) * 4 + b3 \div 64)
                  [] j = 4 -> IF 3 * g > n THEN B64Pad ELSE B64Char(b3 % 64)
    IN  [i \in 1..(4 * ((n + 2) \div 3)) |-> char((i + 3) \div 4, ((i - 1) % 4) + 1)]

(***************************************************************************)
(* query.rs: the validator                                                 *)
(***************************************************************************)

\* FlightError values returned by validate.  arg is the string the error
\* carries (InvalidAirport, InvalidDate), msg the message of a Validation
\* error (its format string), total the number formatted into it.
OkResult == [kind |-> "Ok", arg |-> << >>, msg |-> "", total |-> U32(0)]
InvalidAirport(code) ==
    [kind |-> "InvalidAirport", arg |-> code, msg |-> "", total |-> U32(0)]
InvalidDate(date) ==
    [kind |-> "InvalidDate", arg |-> date, msg |-> "", total |-> U32(0)]
Validation(m, t) == [kind |-> "Validation", arg |-> << >>, msg |-> m, total |-> t]
\* "attempt to add with overflow": the call does not return.
Panic == [kind |-> "Panic", arg |-> << >>, msg |-> "", total |-> U32(0)]

\* u8::is_ascii_uppercase on every char: a char of a valid UTF-8 string is an
\* ASCII uppercase letter exactly when it is one byte in 'A'..'Z'.
all_ascii_uppercase(code) == \A i \in 1..Len(code) : code[i] \in 65..90

\* A mutation of validate_airport: only the length is checked.
validate_airport_len_only(code) ==
    IF Len(code) # 3 THEN InvalidAirport(code) ELSE OkResult

\* fn validate_airport
validate_airport(code) ==
    IF Len(code) # 3 \/ ~all_ascii_uppercase(code)
    THEN InvalidAirport(code)
    ELSE OkResult

\* A mutation of days_in_month: the century exception is forgotten.
days_in_month_julian(year, month) ==
    IF month.hi = 0 /\ month.lo \in {1, 3, 5, 7, 8, 10, 12} THEN 31
    ELSE IF month.hi = 0 /\ month.lo \in {4, 6, 9, 11} THEN 30
    ELSE IF month.hi = 0 /\ month.lo = 2 THEN
        IF U32IsMultipleOf(year, 4) THEN 29 ELSE 28
    ELSE 0

\* fn days_in_month(year: u32, month: u32) -> u32
days_in_month(year, month) ==
    IF month.hi = 0 /\ month.lo \in {1, 3, 5, 7, 8, 10, 12} THEN 31
    ELSE IF month.hi = 0 /\ month.lo \in {4, 6, 9, 11} THEN 30
    ELSE IF month.hi = 0 /\ month.lo = 2 THEN
        IF (U32IsMultipleOf(year, 4) /\ ~U32IsMultipleOf(year, 100))
            \/ U32IsMultipleOf(year, 400)
        THEN 29 ELSE 28
    ELSE 0

\* str::split(sep) collected: the pieces between the occurrences of sep.
RECURSIVE split(_, _)
split(s, sep) ==
    IF \A i \in 1..Len(s) : s[i] # sep THEN << s >>
    ELSE LET k == CHOOSE i \in 1..Len(s) :
                      s[i] = sep /\ \A j \in 1..(i - 1) : s[j] # sep
         IN  << SubSeq(s, 1, k - 1) >> \o split(SubSeq(s, k + 1, Len(s)), sep)

\* The digit loop of u32::from_str: None on a non-digit or on overflow.
RECURSIVE parse_digits(_, _)
parse_digits(digits, acc) ==
    IF digits = << >> THEN Some(acc)
    ELSE IF Head(digits) \notin 48..57 THEN None
    ELSE LET step == U32MulAdd10(acc, Head(digits) - 48)
         IN  IF step.overflow THEN None
             ELSE parse_digits(Tail(digits), step.value)

\* str::parse::<u32>(): an optional '+', then at least one decimal digit.
parse_u32(s) ==
    LET digits == IF s # << >> /\ s[1] = 43 THEN Tail(s) ELSE s
    IN  IF digits = << >> THEN None ELSE parse_digits(digits, U32(0))

\* fn validate_date
validate_date(date) ==
    LET parts == split(date, 45)
    IN  IF Len(parts) # 3 THEN InvalidDate(date)
        ELSE LET year == parse_u32(parts[1])
                 month == parse_u32(parts[2])
                 day == parse_u32(parts[3])
             IN  IF ~IsSome(year) \/ ~IsSome(month) \/ ~IsSome(day)
                 THEN InvalidDate(date)
                 ELSE IF U32Less(Unwrap(year), U32(2000))
                         \/ U32Less(Unwrap(month), U32(1))
                         \/ U32Less(U32(12), Unwrap(month))
                 THEN InvalidDate(date)
                 ELSE IF U32Less(Unwrap(day), U32(1))
                         \/ U32Less(U32(days_in_month(Unwrap(year), Unwrap(month))),
                                    Unwrap(day))
                 THEN InvalidDate(date)
                 ELSE OkResult

\* A mutation of validate_legs: every airport of every leg is checked before
\* any date.
RECURSIVE validate_airports_only(_)
validate_airports_only(legs) ==
    IF legs = << >> THEN OkResult
    ELSE IF validate_airport(Head(legs).from_airport).kind # "Ok"
    THEN validate_airport(Head(legs).from_airport)
    ELSE IF validate_airport(Head(legs).to_airport).kind # "Ok"
    THEN validate_airport(Head(legs).to_airport)
    ELSE validate_airports_only(Tail(legs))

RECURSIVE validate_dates_only(_)
validate_dates_only(legs) ==
    IF legs = << >> THEN OkResult
    ELSE IF validate_date(Head(legs).date).kind # "Ok"
    THEN validate_date(Head(legs).date)
    ELSE validate_dates_only(Tail(legs))

validate_legs_airports_first(legs) ==
    IF validate_airports_only(legs).kind # "Ok" THEN validate_airports_only(legs)
    ELSE validate_dates_only(legs)

\* The loop of validate: per leg, origin, destination, date; the first error
\* returns ("?").
RECURSIVE validate_legs(_)
validate_legs(legs) ==
    IF legs = << >> THEN OkResult
    ELSE IF validate_airport(Head(legs).from_airport).kind # "Ok"
    THEN validate_airport(Head(legs).from_airport)
    ELSE IF validate_airport(Head(legs).to_airport).kind # "Ok"
    THEN validate_airport(Head(legs).to_airport)
    ELSE IF validate_date(Head(legs).date).kind # "Ok"
    THEN validate_date(Head(legs).date)
    ELSE validate_legs(Tail(legs))

\* The sum "adults + children + infants_in_seat + infants_on_lap" on u32,
\* left to right: the wrapped total and whether an addition overflowed.
passenger_total(p) ==
    LET s1 == U32Add(U32(p.adults), U32(p.children))
        s2 == U32Add(s1.value, U32(p.infants_in_seat))
        s3 == U32Add(s2.value, U32(p.infants_on_lap))
    IN  [overflow |-> s1.overflow \/ s2.overflow \/ s3.overflow, value |-> s3.value]

\* A mutation of validate_passengers: a request without an adult is rejected.
validate_passengers_needs_adult(p, overflow_checks) ==
    LET sum == passenger_total(p)
        total == sum.value
    IN  IF sum.overflow /\ overflow_checks THEN Panic
        ELSE IF U32Less(U32(9), total)
        THEN Validation("total passengers ({total}) exceeds maximum of 9", total)
        ELSE IF total = U32(0)
        THEN Validation("at least one passenger required", U32(0))
        ELSE IF p.infants_on_lap >= p.adults
        THEN Validation("infants on lap cannot exceed number of adults", U32(0))
        ELSE OkResult

\* The passenger part of validate.  An overflowing addition panics in a build
\* with overflow checks (the dev and test profiles) and wraps without them
\* (the release profile).
validate_passengers(p, overflow_checks) ==
    LET sum == passenger_total(p)
        total == sum.value
    IN  IF sum.overflow /\ overflow_checks THEN Panic
        ELSE IF U32Less(U32(9), total)
        THEN Validation("total passengers ({total}) exceeds maximum of 9", total)
        ELSE IF total = U32(0)
        THEN Validation("at least one passenger required", U32(0))
        ELSE IF p.infants_on_lap > p.adults
        THEN Validation("infants on lap cannot exceed number of adults", U32(0))
        ELSE OkResult

\* pub fn validate(&self) -> Result<(), FlightError>
validate(q, overflow_checks) ==
    IF q.legs = << >>
    THEN Validation("at least one flight leg required", U32(0))
    ELSE IF validate_legs(q.legs).kind # "Ok" THEN validate_legs(q.legs)
    ELSE validate_passengers(q.passengers, overflow_checks)

(***************************************************************************)
(* query.rs: the transport parameters                                      *)
(***************************************************************************)

\* A mutation of to_url_params: language and currency are always pushed.
to_url_params_always(q) ==
    << << Text(<<"t", "f", "s">>),
          base64_encode(encode(q.legs, q.passengers, q.seat, q.trip)) >>,
       << Text(<<"h", "l">>), q.language >>,
       << Text(<<"c", "u", "r", "r">>), q.currency >> >>

\* pub fn to_url_params(&self) -> Vec<(String, String)>
to_url_params(q) ==
    LET encoded == encode(q.legs, q.passengers, q.seat, q.trip)
        b64 == base64_encode(encoded)
        p1 == << << Text(<<"t", "f", "s">>), b64 >> >>
        p2 == IF q.language # << >>
              THEN Append(p1, << Text(<<"h", "l">>), q.language >>)
              ELSE p1
    IN  IF q.currency # << >>
        THEN Append(p2, << Text(<<"c", "u", "r", "r">>), q.currency >>)
        ELSE p2

(***************************************************************************)
(* Requests: the inputs the operations are applied to                      *)
(***************************************************************************)

MaxLegs == 2
MaxPax == 2
\* passengers_to_enums allocates one element per passenger: the encoder is
\* applied to requests of at most this many passengers per category.
EncodeCap == 130

LAX == Text(<<"L", "A", "X">>)
NRT == Text(<<"N", "R", "T">>)
HEL == Text(<<"H", "E", "L">>)
BCN == Text(<<"B", "C", "N">>)
BKK == Text(<<"B", "K", "K">>)
AY == Text(<<"A", "Y">>)
IB == Text(<<"I", "B">>)
EN == Text(<<"e", "n">>)
USD == Text(<<"U", "S", "D">>)

\* Zero-padded decimal numerals, as the dates of the tests are written.
two_digits(n) == << 48 + (n \div 10), 48 + (n % 10) >>
four_digits(n) == two_digits(n \div 100) \o two_digits(n % 100)
ymd(y, m, d) == four_digits(y) \o << 45 >> \o two_digits(m) \o << 45 >> \o two_digits(d)

Leg(date, from, to, max_stops, airlines) ==
    [date |-> date, from_airport |-> from, to_airport |-> to,
     max_stops |-> max_stops, airlines |-> airlines]

Passengers(a, c, s, l) ==
    [adults |-> a, children |-> c, infants_in_seat |-> s, infants_on_lap |-> l]

\* impl Default for Passengers
DefaultPassengers == Passengers(1, 0, 0, 0)

QueryParams(legs, passengers, seat, trip, language, currency) ==
    [legs |-> legs, passengers |-> passengers, seat |-> seat, trip |-> trip,
     language |-> language, currency |-> currency]

Seats == {"Economy", "PremiumEconomy", "Business", "First"}
Trips == {"RoundTrip", "OneWay", "MultiCity"}

\* All sequences over S of length lo..hi.
SeqsOf(S, lo, hi) == UNION {[1..n -> S] : n \in lo..hi}

\* The legs of the encoder tests: plain, with a stop bound (1 and 0), with an
\* airline list (two codes, one code, none).
EncodeLegs ==
    { Leg(ymd(2026, 3, 1), LAX, NRT, None, None),
      Leg(ymd(2026, 3, 1), HEL, BKK, Some(1), None),
      Leg(ymd(2026, 3, 1), HEL, BCN, None, Some(<<AY, IB>>)),
      Leg(ymd(2026, 3, 5), NRT, LAX, Some(0), Some(<<AY>>)),
      Leg(ymd(2026, 3, 1), HEL, BCN, Some(2), Some(<< >>)) }

\* Requests that vary the legs, the cabin and the trip type.
LegRequests ==
    { QueryParams(legs, DefaultPassengers, seat, trip, EN, USD) :
        legs \in SeqsOf(EncodeLegs, 0, MaxLegs), seat \in Seats, trip \in Trips }

\* Requests that vary the passenger counts, the language and the currency.
PassengerCounts ==
    { Passengers(a, c, s, l) : a \in 0..MaxPax, c \in 0..MaxPax,
                               s \in 0..MaxPax, l \in 0..MaxPax }
        \cup { Passengers(EncodeCap, 0, 0, 0), Passengers(100, 20, 5, 5) }

PassengerRequests ==
    { QueryParams(<< Leg(ymd(2026, 3, 1), LAX, NRT, None, None) >>, p,
                  "Economy", "OneWay", lang, curr) :
        p \in PassengerCounts, lang \in {<< >>, EN}, curr \in {<< >>, USD} }

\* Airport codes: valid ones, and lowercase, short, long, with a digit, with
\* the neighbours of 'A' and 'Z', empty, and with a two-byte character
\* (195 137 is U+00C9) making three bytes or three characters.
AirportSamples ==
    { HEL, BCN,
      Text(<<"h", "e", "l">>), Text(<<"H", "E">>), Text(<<"H", "E", "L", "X">>),
      Text(<<"H", "3", "L">>), Text(<<"H", "e", "L">>), Text(<<"@", "A", "Z">>),
      Text(<<"A", "Z", "[">>), << >>, << 195, 137, 65 >>, << 195, 137, 65, 66 >> }

AirportRequests ==
    { QueryParams(<< Leg(ymd(2026, 3, 1), from, to, None, None) >>,
                  DefaultPassengers, "Economy", "OneWay", EN, USD) :
        from \in AirportSamples, to \in AirportSamples }

\* Dates of the shape YYYY-MM-DD around every boundary of the calendar rule.
ShapedDates ==
    { ymd(y, m, d) : y \in {1999, 2000, 2025, 2026, 2028, 2100, 2400},
                     m \in 0..13, d \in {0, 1, 28, 29, 30, 31, 32} }

\* Dates of other shapes.
UnshapedDates ==
    { Text(<<"2", "0", "2", "6", "-", "3", "-", "1">>),
      Text(<<"0", "2", "0", "2", "6", "-", "0", "3", "-", "0", "1">>),
      Text(<<"+", "2", "0", "2", "6", "-", "0", "3", "-", "0", "1">>),
      Text(<<"0", "3", "-", "0", "1", "-", "2", "0", "2", "6">>),
      Text(<<"2", "0", "2", "6", "-", "0", "3">>),
      Text(<<"2", "0", "2", "6", "-", "0", "3", "-", "0", "1", "-", "0", "1">>),
      Text(<<"2", "0", "2", "6", "/", "0", "3", "/", "0", "1">>),
      Text(<<"2", "0", "2", "6", "-", "-", "0", "1">>),
      Text(<<"2", "0", "a", "6", "-", "0", "3", "-", "0", "1">>),
      Text(<<"2", "0", "2", "6", "-", "0", "3", "-", " ", "1">>),
      Text(<<"2", "0", "2", "6", "-", "0", "3", "-", "+", "1">>),
      Text(<<"2", "0", "2", "6", "-", "+", "3", "-", "0", "1">>),
      Text(<<"2", "0", "2", "6", "-", "0", "3", "-", "0", "0", "1">>),
      Text(<<"4", "2", "9", "4", "9", "6", "7", "2", "9", "6", "-", "0", "1", "-", "0", "1">>),
      Text(<<"4", "2", "9", "4", "9", "6", "7", "2", "9", "5", "-", "0", "2", "-", "2", "8">>),
      << >> }

DateRequests ==
    { QueryParams(<< Leg(date, HEL, BCN, None, None) >>,
                  DefaultPassengers, "Economy", "OneWay", EN, USD) :
        date \in ShapedDates \cup UnshapedDates }

\* Requests that break several rules at once.
OrderLegs ==
    { Leg(date, from, to, None, None) :
        date \in {ymd(2026, 3, 1), ymd(2026, 2, 30)},
        from \in {HEL, Text(<<"h", "e", "l">>)},
        to \in {BCN, Text(<<"B", "C">>)} }

OrderRequests ==
    { QueryParams(legs, p, "Economy", "RoundTrip", EN, USD) :
        legs \in SeqsOf(OrderLegs, 1, MaxLegs),
        p \in {DefaultPassengers, Passengers(10, 0, 0, 0), Passengers(0, 0, 0, 0)} }

\* Passenger counts around the limits 1, 9 and infants-on-lap <= adults, and
\* counts whose sum leaves the u32 range.
CountRequests ==
    { QueryParams(<< Leg(ymd(2026, 3, 1), HEL, BCN, None, None) >>, p,
                  "Economy", "OneWay", EN, USD) :
        p \in { Passengers(a, c, s, l) : a \in {0, 1, 2, 5, 9, 10}, c \in {0, 1, 2, 3, 8},
                                         s \in {0, 1, 2}, l \in {0, 1, 2, 3} }
              \cup { Passengers(2147483647, 2147483647, 3, 0),
                     Passengers(2147483647, 2147483647, 2, 0),
                     Passengers(2147483647, 2147483647, 12, 0),
                     Passengers(2147483647, 2147483647, 0, 0),
                     Passengers(2147483647, 0, 0, 2147483647) } }

\* Requests with strings around and beyond the 127 bytes a one-byte length
\* prefix can announce: as date, as airline code, as airport code.
LongText == 130
Filled(n, byte) == [i \in 1..n |-> byte]
LongTexts == { Filled(n, 65) : n \in {125, 126, 127, 128, LongText} }

LongLegs ==
    { Leg(text, HEL, BCN, None, None) : text \in LongTexts }
        \cup { Leg(ymd(2026, 3, 1), text, BCN, Some(1), Some(<< IB, text, AY >>)) :
                  text \in LongTexts }
        \cup { Leg(ymd(2026, 3, 1), HEL, text, Some(0), Some(<< >>)) : text \in LongTexts }

LongRequests ==
    { QueryParams(<< leg >>, p, "Business", "MultiCity", EN, USD) :
        leg \in LongLegs,
        p \in { DefaultPassengers, Passengers(0, 0, 0, 0), Passengers(EncodeCap, 0, 0, 0) } }

Requests ==
    LegRequests \cup PassengerRequests \cup AirportRequests \cup DateRequests
        \cup OrderRequests \cup CountRequests \cup LongRequests

\* The return dates a caller appends a return leg with.
ReturnDates == {ymd(2026, 3, 10)}

(***************************************************************************)
(* State                                                                   *)
(***************************************************************************)

VARIABLES
    query,      \* the QueryParams the caller holds
    verdict,    \* what validate returned for query (NotRun before the call)
    wire,       \* Option: the bytes proto::encode produced for query
    params,     \* Option: what to_url_params returned for query
    base,       \* Option: the bytes encoded before a return leg was appended
    input,      \* what the decoder is given: a document, a script text or a tree
    output,     \* what the decoder returned for input (NotDecoded before the call)
    meta,       \* Option: the metadata parse_payload built for input
    shown,      \* Option: the flights after apply_top, with the N it was given
    call,       \* one call of a helper function: its name and arguments
    ret,        \* what the call returned (NotReturned before it returns)
    run         \* one invocation of a front end: its arguments, position and calls

request_vars == << query, verdict, wire, params, base >>
decoder_vars == << input, output, meta, shown >>
call_vars == << call, ret >>
vars ==
    << query, verdict, wire, params, base, input, output, meta, shown, call, ret, run >>

\* The values of the variables an operation family does not use.
NoInput == [kind |-> "none", doc |-> << >>, js |-> << >>, tree |-> << >>]
NotDecoded == [kind |-> "NotDecoded", result |-> << >>, detail |-> ""]
NoRun ==
    [entry |-> "none", open |-> FALSE, url |-> FALSE, json |-> FALSE, top |-> << >>,
     multi |-> FALSE, reqs |-> << >>, i |-> 0, pc |-> "none", calls |-> << >>,
     tasks |-> << >>, done |-> << >>, results |-> << >>, out |-> << >>]
NoCall == [fn |-> "none", value |-> << 0, 0, 0, 0 >>, buf |-> << >>, node |-> << >>, idx |-> 0]
NotReturned == [returned |-> FALSE, buf |-> << >>, val |-> << >>]
CallIdle == call = NoCall /\ ret = NotReturned
DecoderIdle ==
    input = NoInput /\ output = NotDecoded /\ meta = None /\ shown = None

NotRun == [kind |-> "NotRun", arg |-> << >>, msg |-> "", total |-> U32(0)]

Init ==
    /\ query \in Requests
    /\ verdict = NotRun
    /\ wire = None
    /\ params = None
    /\ base = None
    /\ DecoderIdle
    /\ CallIdle
    /\ run = NoRun

\* query.validate(), in a build with or without overflow checks.
Validate ==
    /\ verdict = NotRun
    /\ \E overflow_checks \in BOOLEAN :
           verdict' = validate(query, overflow_checks)
    /\ UNCHANGED << query, wire, params, base, decoder_vars, run, call_vars >>

Encodable(p) ==
    /\ p.adults <= EncodeCap
    /\ p.children <= EncodeCap
    /\ p.infants_in_seat <= EncodeCap
    /\ p.infants_on_lap <= EncodeCap

\* query.to_url_params(): proto::encode, base64, the parameter list.
ToUrlParams ==
    /\ params = None
    /\ Encodable(query.passengers)
    /\ wire' = Some(encode(query.legs, query.passengers, query.seat, query.trip))
    /\ params' = Some(to_url_params(query))
    /\ UNCHANGED << query, verdict, base, decoder_vars, run, call_vars >>

\* A code as to_uppercase returns it.  The codes of the requests are ASCII
\* or hold the upper-case letter U+00C9: no lower-case ASCII letter is left.
Uppercased(code) == \A i \in 1..Len(code) : code[i] \notin 97..122

\* parse_legs and build_legs with a return date: the one leg built from
\* from, to and date is followed by the return leg (the same leg reversed, on
\* the return date) and the trip type is round trip; the bytes of the request
\* without the return date are kept for comparison.
AddReturnLeg ==
    /\ base = None
    /\ wire # None
    /\ Len(query.legs) = 1
    /\ Uppercased(query.legs[1].from_airport) /\ Uppercased(query.legs[1].to_airport)
    /\ \E ret_date \in ReturnDates :
           query' = [query EXCEPT
                       !.legs = Append(@, Leg(ret_date, query.legs[1].to_airport,
                                              query.legs[1].from_airport,
                                              query.legs[1].max_stops,
                                              query.legs[1].airlines)),
                       !.trip = "RoundTrip"]
    /\ base' = wire
    /\ verdict' = NotRun
    /\ wire' = None
    /\ params' = None
    /\ UNCHANGED << decoder_vars, run, call_vars >>

Next == Validate \/ ToUrlParams \/ AddReturnLeg

Spec == Init /\ [][Next]_vars

(***************************************************************************)
(* A reference reader of the wire format, used to state the properties of  *)
(* the encoder: it reads tag / value pairs until the buffer ends.          *)
(***************************************************************************)

\* The varint at position pos: its value and the position after it (0 when
\* the buffer ends inside it).
RECURSIVE ReadVarint(_, _)
ReadVarint(bytes, pos) ==
    IF pos > Len(bytes) THEN [value |-> 0, next |-> 0]
    ELSE IF bytes[pos] < 128 THEN [value |-> bytes[pos], next |-> pos + 1]
    ELSE LET r == ReadVarint(bytes, pos + 1)
         IN  IF r.next = 0 THEN r
             ELSE [value |-> (bytes[pos] - 128) + 128 * r.value, next |-> r.next]

Malformed == [field |-> 0, wire |-> 7, value |-> 0, payload |-> << >>, from |-> 0, to |-> 0]

\* The fields from position pos on: the number, the wire type, the value (of
\* a varint field, or the length prefix of a length-delimited one), the
\* payload and the first and last position of each.  What cannot be read
\* ends the list with Malformed.
RECURSIVE ReadFieldsFrom(_, _)
ReadFieldsFrom(bytes, pos) ==
    IF pos > Len(bytes) THEN << >>
    ELSE
      LET tag == ReadVarint(bytes, pos)
          val == ReadVarint(bytes, tag.next)
      IN  IF tag.next = 0 \/ val.next = 0 THEN << Malformed >>
          ELSE IF tag.value % 8 = 0 THEN
              << [field |-> tag.value \div 8, wire |-> 0, value |-> val.value,
                  payload |-> << >>, from |-> pos, to |-> val.next - 1] >>
                  \o ReadFieldsFrom(bytes, val.next)
          ELSE IF tag.value % 8 = 2 /\ val.next + val.value - 1 <= Len(bytes) THEN
              << [field |-> tag.value \div 8, wire |-> 2, value |-> val.value,
                  payload |-> SubSeq(bytes, val.next, val.next + val.value - 1),
                  from |-> pos, to |-> val.next + val.value - 1] >>
                  \o ReadFieldsFrom(bytes, val.next + val.value)
          ELSE << Malformed >>

ReadFields(bytes) == ReadFieldsFrom(bytes, 1)

\* A field as (number, wire type, value, payload), without its position.
Shape(f) == << f.field, f.wire, f.value, f.payload >>
Varint(field, value) == << field, 0, value, << >> >>
Delimited(field, payload) == << field, 2, Len(payload), payload >>

\* The codes of the wire format as the specification lists them.
CabinCode(seat) ==
    CASE seat = "Economy" -> 1 [] seat = "PremiumEconomy" -> 2
      [] seat = "Business" -> 3 [] seat = "First" -> 4
TripCode(trip) ==
    CASE trip = "RoundTrip" -> 1 [] trip = "OneWay" -> 2 [] trip = "MultiCity" -> 3

\* The packed passenger codes: a times 1, c times 2, s times 3, l times 4.
PassengerCodes(p) ==
    [i \in 1..(p.adults + p.children + p.infants_in_seat + p.infants_on_lap) |->
        IF i <= p.adults THEN 1
        ELSE IF i <= p.adults + p.children THEN 2
        ELSE IF i <= p.adults + p.children + p.infants_in_seat THEN 3
        ELSE 4]

\* The fields of a leg submessage are those of leg, in the order date (2),
\* max-stops (5) when present, airlines (6), origin (13), destination (14).
LegLayout(payload, leg) ==
    LET fs == ReadFields(payload)
        m == IF leg.max_stops = None THEN 0 ELSE 1
        k == IF leg.airlines = None THEN 0 ELSE Len(leg.airlines[1])
    IN  /\ Len(fs) = 1 + m + k + 2
        /\ Shape(fs[1]) = Delimited(2, leg.date)
        /\ m = 1 => Shape(fs[2]) = Varint(5, leg.max_stops[1])
        /\ \A j \in 1..k : Shape(fs[1 + m + j]) = Delimited(6, leg.airlines[1][j])
        /\ fs[2 + m + k].field = 13 /\ fs[2 + m + k].wire = 2
        /\ LET a == ReadFields(fs[2 + m + k].payload)
           IN  Len(a) = 1 /\ Shape(a[1]) = Delimited(2, leg.from_airport)
        /\ fs[3 + m + k].field = 14 /\ fs[3 + m + k].wire = 2
        /\ LET a == ReadFields(fs[3 + m + k].payload)
           IN  Len(a) = 1 /\ Shape(a[1]) = Delimited(2, leg.to_airport)

(***************************************************************************)
(* Properties of the encoder                                               *)
(***************************************************************************)

LiteralLegs == << Leg(ymd(2026, 3, 1), LAX, NRT, None, None) >>

LiteralToken ==
    Text(<< "G", "h", "o", "S", "C", "j", "I", "w", "M", "j", "Y", "t",
            "M", "D", "M", "t", "M", "D", "F", "q", "B", "R", "I", "D",
            "T", "E", "F", "Y", "c", "g", "U", "S", "A", "0", "5", "S",
            "V", "E", "I", "B", "A", "U", "g", "B", "m", "A", "E", "C" >>)

IsLiteralRequest ==
    /\ query.legs = LiteralLegs
    /\ query.passengers = Passengers(1, 0, 0, 0)
    /\ query.seat = "Economy"
    /\ query.trip = "OneWay"

\* C1: the literal request (one leg 2026-03-01 LAX to NRT, no max-stops, no
\* airlines, 1 adult, Economy, OneWay) encodes to the base64 token
\* "GhoSCjIwMjYtMDMtMDFqBRIDTEFYcgUSA05SVEIBAUgBmAEC", returned as the value
\* of "tfs".
C1_LiteralToken ==
    (IsLiteralRequest /\ params # None) =>
        /\ params[1][1] = << Text(<<"t", "f", "s">>), LiteralToken >>
        /\ base64_encode(wire[1]) = LiteralToken

C1_Witness == IsLiteralRequest /\ params # None /\ wire # None

\* C2: for a validated request the encoder writes one field 3 per leg in leg
\* order, then the packed field 8, then field 9 (cabin code), then field 19
\* (trip code); each leg submessage holds date, max-stops exactly when
\* present (0 included), the airlines in order, origin and destination.
C2_WireLayout ==
    (verdict.kind = "Ok" /\ wire # None) =>
        LET fs == ReadFields(wire[1])
            n == Len(query.legs)
        IN  /\ Len(fs) = n + 3
            /\ \A i \in 1..n :
                  /\ fs[i].field = 3 /\ fs[i].wire = 2
                  /\ fs[i].value = Len(fs[i].payload)
                  /\ LegLayout(fs[i].payload, query.legs[i])
            /\ Shape(fs[n + 1]) = Delimited(8, PassengerCodes(query.passengers))
            /\ Shape(fs[n + 2]) = Varint(9, CabinCode(query.seat))
            /\ Shape(fs[n + 3]) = Varint(19, TripCode(query.trip))
            /\ fs[1].from = 1 /\ fs[n + 3].to = Len(wire[1])

C2_Witness ==
    /\ verdict.kind = "Ok" /\ wire # None
    /\ Len(query.legs) = 2
    /\ query.legs[1].max_stops = Some(0)
    /\ query.legs[1].airlines = Some(<<AY>>)
    /\ query.legs[2].airlines = Some(<<AY, IB>>)
    /\ query.seat = "First" /\ query.trip = "MultiCity"

\* The fields numbered 8 of the encoded request.
Field8 ==
    LET fs == ReadFields(wire[1])
    IN  { i \in 1..Len(fs) : fs[i].field = 8 }

PassengerTotal(p) == p.adults + p.children + p.infants_in_seat + p.infants_on_lap

\* C3 as stated: for any passenger counts the encoding holds a packed field 8
\* whose payload is a codes 1, c codes 2, s codes 3, l codes 4 and whose
\* length prefix is a + c + s + l.
C3_Original ==
    wire # None =>
        \E i \in Field8 :
            Shape(ReadFields(wire[1])[i]) = Delimited(8, PassengerCodes(query.passengers))

\* C3 amended: with at least one passenger the encoding holds exactly one
\* field 8, packed, whose payload is a codes 1, c codes 2, s codes 3, l codes
\* 4, one byte each, and whose length prefix is a + c + s + l; with no
\* passenger at all the encoding holds no field 8.
C3_PackedPassengers ==
    wire # None =>
        IF PassengerTotal(query.passengers) = 0 THEN Field8 = {}
        ELSE /\ Cardinality(Field8) = 1
             /\ \A i \in Field8 :
                   LET f == ReadFields(wire[1])[i]
                   IN  /\ f.wire = 2
                       /\ f.value = PassengerTotal(query.passengers)
                       /\ f.payload = PassengerCodes(query.passengers)
                       /\ f.to - f.from + 1 =
                            1 + Len(encode_varint(f.value, << >>)) + f.value

C3_Witness ==
    /\ wire # None
    /\ query.passengers = Passengers(2, 1, 1, 0)
    /\ Field8 # {}

C3_WitnessNoPassenger ==
    wire # None /\ PassengerTotal(query.passengers) = 0

\* C4: after a return leg is appended and the trip type set to RoundTrip, the
\* leg bytes of the request as it was are a prefix of the new encoding, the
\* new leg's field 3 follows them immediately, and the bytes after it equal
\* the former bytes after the legs except for the last one, the trip code.
C4_ReturnLegAppended ==
    (base # None /\ wire # None) =>
        LET old == base[1]
            new == wire[1]
            n == Len(query.legs) - 1
            oldf == ReadFields(old)
            newf == ReadFields(new)
            legsEnd == oldf[n].to
            oldRest == SubSeq(old, legsEnd + 1, Len(old))
            newRest == SubSeq(new, newf[n + 1].to + 1, Len(new))
        IN  /\ \A i \in 1..n : oldf[i].field = 3
            /\ oldf[n + 1].field # 3
            /\ SubSeq(new, 1, legsEnd) = SubSeq(old, 1, legsEnd)
            /\ newf[n + 1].field = 3 /\ newf[n + 1].wire = 2
            /\ newf[n + 1].from = legsEnd + 1
            /\ LegLayout(newf[n + 1].payload, query.legs[n + 1])
            /\ Len(newRest) = Len(oldRest)
            /\ \A i \in 1..(Len(newRest) - 1) : newRest[i] = oldRest[i]
            /\ newRest[Len(newRest)] = 1

\* The same for a request of any number of legs, the return leg being the
\* reverse of the first leg or, without one, a leg of its own.
C4_AnyLegs ==
    wire # None =>
        LET old == wire[1]
            n == Len(query.legs)
            leg == IF n = 0 THEN Leg(ymd(2026, 3, 10), BCN, HEL, None, None)
                   ELSE Leg(ymd(2026, 3, 10), query.legs[1].to_airport,
                            query.legs[1].from_airport, query.legs[1].max_stops,
                            query.legs[1].airlines)
            new == encode(Append(query.legs, leg), query.passengers, query.seat, "RoundTrip")
            oldf == ReadFields(old)
            newf == ReadFields(new)
            legsEnd == IF n = 0 THEN 0 ELSE oldf[n].to
            oldRest == SubSeq(old, legsEnd + 1, Len(old))
            newRest == SubSeq(new, newf[n + 1].to + 1, Len(new))
        IN  /\ SubSeq(new, 1, legsEnd) = SubSeq(old, 1, legsEnd)
            /\ newf[n + 1].field = 3 /\ newf[n + 1].wire = 2
            /\ newf[n + 1].from = legsEnd + 1
            /\ LegLayout(newf[n + 1].payload, leg)
            /\ Len(newRest) = Len(oldRest)
            /\ \A i \in 1..(Len(newRest) - 1) : newRest[i] = oldRest[i]
            /\ newRest[Len(newRest)] = 1

C4_Witness ==
    /\ base # None /\ wire # None
    /\ Len(query.legs) = 2
    /\ base[1][Len(base[1])] = 3
    /\ query.passengers = DefaultPassengers

\* C5: to_url_params returns ("tfs", token) first, then ("hl", language) if
\* and only if the language is not empty, then ("curr", currency) if and only
\* if the currency is not empty, and nothing else; no value is empty.
C5_UrlParams ==
    params # None =>
        LET p == params[1]
            hl == IF query.language # << >>
                  THEN << << Text(<<"h", "l">>), query.language >> >> ELSE << >>
            curr == IF query.currency # << >>
                    THEN << << Text(<<"c", "u", "r", "r">>), query.currency >> >> ELSE << >>
        IN  /\ p[1][1] = Text(<<"t", "f", "s">>)
            /\ p[1][2] = base64_encode(wire[1])
            /\ SubSeq(p, 2, Len(p)) = hl \o curr
            /\ \A i \in 1..Len(p) : p[i][2] # << >>

C5_Witness ==
    /\ params # None
    /\ query.language = << >>
    /\ query.currency = USD
    /\ Len(params[1]) = 2

(***************************************************************************)
(* Properties of the validator                                             *)
(***************************************************************************)

Validated == verdict.kind # "NotRun"

\* The number of characters of a UTF-8 string: its bytes that do not continue
\* a character.
CharCount(s) == Cardinality({i \in 1..Len(s) : s[i] \notin 128..191})

\* Exactly three characters, all in A..Z.
IsThreeUppercase(code) ==
    CharCount(code) = 3 /\ \A i \in 1..Len(code) : code[i] \in 65..90

AirportsValid(leg) ==
    IsThreeUppercase(leg.from_airport) /\ IsThreeUppercase(leg.to_airport)

\* The first airport code of a leg that is not valid, origin before destination.
OffendingCode(leg) ==
    IF ~IsThreeUppercase(leg.from_airport) THEN leg.from_airport ELSE leg.to_airport

\* The least element of a non-empty set of indices.
Least(S) == CHOOSE i \in S : \A j \in S : i <= j

LegIndices == 1..Len(query.legs)

\* C6 as stated: whenever some leg has an origin or destination that is not
\* three uppercase ASCII letters, validate returns InvalidAirport carrying an
\* offending code; a valid code never causes InvalidAirport.
C6_Original ==
    Validated =>
        /\ (\E i \in LegIndices : ~AirportsValid(query.legs[i])) =>
              /\ verdict.kind = "InvalidAirport"
              /\ \E i \in LegIndices :
                    /\ verdict.arg \in {query.legs[i].from_airport, query.legs[i].to_airport}
                    /\ ~IsThreeUppercase(verdict.arg)
        /\ verdict.kind = "InvalidAirport" => ~IsThreeUppercase(verdict.arg)

\* C6 amended: whenever some leg has an origin or destination that is not
\* three uppercase ASCII letters and every earlier leg passes its airport and
\* date checks, validate returns InvalidAirport carrying that leg's offending
\* code (the origin if it is invalid, else the destination); an InvalidAirport
\* error always carries a code of the request that is not three uppercase
\* ASCII letters.
C6_InvalidAirport ==
    Validated =>
        /\ \A i \in LegIndices :
              ( /\ ~AirportsValid(query.legs[i])
                /\ \A j \in 1..(i - 1) :
                      /\ AirportsValid(query.legs[j])
                      /\ validate_date(query.legs[j].date).kind = "Ok" )
              => verdict = InvalidAirport(OffendingCode(query.legs[i]))
        /\ verdict.kind = "InvalidAirport" =>
              /\ ~IsThreeUppercase(verdict.arg)
              /\ \E i \in LegIndices :
                    verdict.arg \in {query.legs[i].from_airport, query.legs[i].to_airport}

C6_Witness ==
    /\ Len(query.legs) = 2
    /\ AirportsValid(query.legs[1])
    /\ IsThreeUppercase(query.legs[2].from_airport)
    /\ verdict = InvalidAirport(Text(<<"B", "C">>))

\* The shape YYYY-MM-DD: four digits, a hyphen, two digits, a hyphen, two digits.
WellShaped(date) ==
    /\ Len(date) = 10
    /\ date[5] = 45 /\ date[8] = 45
    /\ \A i \in {1, 2, 3, 4, 6, 7, 9, 10} : date[i] \in 48..57

\* The number written in positions a..b of a shaped date.
RECURSIVE Numeral(_, _, _)
Numeral(date, a, b) ==
    IF a > b THEN 0 ELSE 10 * Numeral(date, a, b - 1) + (date[b] - 48)

IsLeapYear(y) == (y % 4 = 0 /\ y % 100 # 0) \/ y % 400 = 0

DaysIn(y, m) ==
    IF m = 2 THEN (IF IsLeapYear(y) THEN 29 ELSE 28)
    ELSE IF m \in {4, 6, 9, 11} THEN 30
    ELSE 31

\* The calendar rule for a shaped date.
CalendarDate(date) ==
    LET y == Numeral(date, 1, 4)
        m == Numeral(date, 6, 7)
        d == Numeral(date, 9, 10)
    IN  y >= 2000 /\ m \in 1..12 /\ d \in 1..DaysIn(y, m)

AllAirportsValid == \A i \in LegIndices : AirportsValid(query.legs[i])

\* C7: with valid airports and dates of the shape YYYY-MM-DD, validate
\* accepts the dates if and only if each has year >= 2000, month 1..12 and a
\* day of that month (29 February in leap years only); the first date that
\* does not is returned in InvalidDate.
C7_CalendarDates ==
    ( /\ Validated /\ query.legs # << >> /\ AllAirportsValid
      /\ \A i \in LegIndices : WellShaped(query.legs[i].date) ) =>
        LET bad == {i \in LegIndices : ~CalendarDate(query.legs[i].date)}
        IN  IF bad = {}
            THEN verdict.kind \notin {"InvalidDate", "InvalidAirport"}
            ELSE verdict = InvalidDate(query.legs[Least(bad)].date)

C7_Witness ==
    /\ Validated /\ AllAirportsValid
    /\ verdict = InvalidDate(ymd(2100, 2, 29))

C7_WitnessAccepted ==
    /\ query.legs # << >> /\ query.legs[1].date = ymd(2400, 2, 29)
    /\ verdict.kind = "Ok"

\* C8: with valid airports, every leg date that is not of the shape
\* YYYY-MM-DD makes validate return InvalidDate.
C8_ShapeRequired ==
    ( /\ Validated /\ query.legs # << >> /\ AllAirportsValid
      /\ \E i \in LegIndices : ~WellShaped(query.legs[i].date) ) =>
        verdict.kind = "InvalidDate"

\* Whether the sum of the four counts lies in lo..hi, hi < 10.
TotalWithin(p, lo, hi) ==
    /\ p.adults <= hi /\ p.children <= hi
    /\ p.infants_in_seat <= hi /\ p.infants_on_lap <= hi
    /\ p.adults + p.children + p.infants_in_seat + p.infants_on_lap \in lo..hi

\* C9: with at least one leg and all airports and dates valid, validate
\* returns Ok if and only if the sum of the four counts is 1..9 and
\* infants-on-lap <= adults, and a Validation error otherwise.
C9_PassengerRule ==
    ( /\ Validated /\ query.legs # << >> /\ AllAirportsValid
      /\ \A i \in LegIndices :
            WellShaped(query.legs[i].date) /\ CalendarDate(query.legs[i].date) ) =>
        IF TotalWithin(query.passengers, 1, 9)
              /\ query.passengers.infants_on_lap <= query.passengers.adults
        THEN verdict.kind = "Ok"
        ELSE verdict.kind = "Validation"

\* The legs that fail the airport check, the legs that fail the date check.
AirportFails == {i \in LegIndices : validate_airport(query.legs[i].from_airport).kind # "Ok"
                                    \/ validate_airport(query.legs[i].to_airport).kind # "Ok"}
DateFails == {i \in LegIndices : validate_date(query.legs[i].date).kind # "Ok"}

FirstFailedAirport(leg) ==
    IF validate_airport(leg.from_airport).kind # "Ok"
    THEN leg.from_airport ELSE leg.to_airport

\* C10 as stated: all airport checks come before all date checks, which come
\* before the passenger checks.
C10_Original ==
    (Validated /\ query.legs # << >>) =>
        IF AirportFails # {}
        THEN verdict = InvalidAirport(FirstFailedAirport(query.legs[Least(AirportFails)]))
        ELSE IF DateFails # {}
        THEN verdict = InvalidDate(query.legs[Least(DateFails)].date)
        ELSE verdict.kind \notin {"InvalidAirport", "InvalidDate"}

\* C10 amended: the legs are examined in leg order and, within a leg, the
\* origin, the destination, then the date; the passenger checks come after
\* all legs.  The result is the error of the first leg that fails a check:
\* InvalidAirport if one of its airports fails, else InvalidDate; it is a
\* passenger result only if no leg fails.
C10_FirstViolation ==
    (Validated /\ query.legs # << >>) =>
        LET fails == AirportFails \cup DateFails
        IN  IF fails = {}
            THEN verdict \in {validate_passengers(query.passengers, TRUE),
                              validate_passengers(query.passengers, FALSE)}
            ELSE IF Least(fails) \in AirportFails
            THEN verdict = InvalidAirport(FirstFailedAirport(query.legs[Least(fails)]))
            ELSE verdict = InvalidDate(query.legs[Least(fails)].date)

C10_Witness ==
    /\ Len(query.legs) = 2
    /\ 1 \in DateFails /\ 1 \notin AirportFails /\ 2 \in AirportFails
    /\ query.passengers = Passengers(10, 0, 0, 0)
    /\ verdict = InvalidDate(ymd(2026, 2, 30))

(***************************************************************************)
(* parse.rs: the response tree (serde_json::Value) and positional access   *)
(***************************************************************************)

\* A u64 as four 16-bit limbs, most significant first.
Zero64 == << 0, 0, 0, 0 >>
Mag(n) == << 0, 0, n \div Limb, n % Limb >>

\* serde_json::Value.  A number is PosInt(u64), NegInt(i64 < 0, kept as its
\* absolute value) or Float; an object keeps its members as key, value, ...
JNull == [t |-> "null", mag |-> Zero64, s |-> << >>, a |-> << >>]
JBool(b) == [t |-> IF b THEN "true" ELSE "false", mag |-> Zero64, s |-> << >>, a |-> << >>]
JPos(mag) == [t |-> "posint", mag |-> mag, s |-> << >>, a |-> << >>]
JNeg(mag) == [t |-> "negint", mag |-> mag, s |-> << >>, a |-> << >>]
JInt(n) == IF n >= 0 THEN JPos(Mag(n)) ELSE JNeg(Mag(0 - n))
JFloat == [t |-> "float", mag |-> Zero64, s |-> << >>, a |-> << >>]
JStr(s) == [t |-> "str", mag |-> Zero64, s |-> s, a |-> << >>]
JArr(a) == [t |-> "arr", mag |-> Zero64, s |-> << >>, a |-> a]
\* An object: its members as key, value, key, value, ... in the order of the
\* keys, each key once (serde_json::Map).
JObj(members) == [t |-> "obj", mag |-> Zero64, s |-> << >>, a |-> members]

\* impl Ord for String: the order of the bytes, a prefix before its extensions.
StringLess(a, b) ==
    \/ Len(a) < Len(b) /\ SubSeq(b, 1, Len(a)) = a
    \/ \E i \in 1..Len(a) :
          /\ i <= Len(b) /\ a[i] < b[i]
          /\ \A j \in 1..(i - 1) : a[j] = b[j]

\* Map::insert: the value of a key that is there is replaced, a new key goes
\* to its place in the order of the keys.
map_insert(members, key, val) ==
    LET n == Len(members) \div 2
        at == {i \in 1..n : members[2 * i - 1] = key}
        before == Cardinality({i \in 1..n : StringLess(members[2 * i - 1].s, key.s)})
    IN  IF at # {}
        THEN [j \in 1..Len(members) |->
                IF j \in {2 * i : i \in at} THEN val ELSE members[j]]
        ELSE SubSeq(members, 1, 2 * before) \o << key, val >>
               \o SubSeq(members, 2 * before + 1, Len(members))

\* An i64 as sign and magnitude.
I64(neg, mag) == [neg |-> neg, mag |-> mag]

\* Value::as_i64: an integer that fits in i64.
as_i64(v) ==
    IF v.t = "posint" /\ v.mag[1] < 32768 THEN Some(I64(FALSE, v.mag))
    ELSE IF v.t = "negint" THEN Some(I64(TRUE, v.mag))
    ELSE None

\* Value::as_u64: a non-negative integer.
as_u64(v) == IF v.t = "posint" THEN Some(v.mag) ELSE None

\* fn get_val(val: &Value, idx: usize) -> Option<&Value>
get_val(val, idx) ==
    IF val.t = "arr" /\ idx < Len(val.a) THEN Some(val.a[idx + 1]) ELSE None

\* fn get_str
get_str(val, idx) ==
    LET v == get_val(val, idx)
    IN  IF IsSome(v) /\ Unwrap(v).t = "str" THEN Some(Unwrap(v).s) ELSE None

\* fn get_i64
get_i64(val, idx) ==
    LET v == get_val(val, idx)
    IN  IF IsSome(v) THEN as_i64(Unwrap(v)) ELSE None

\* fn get_u32: as_u64, then the cast `v as u32` keeps the low 32 bits.
get_u32(val, idx) ==
    LET v == get_val(val, idx)
        n == IF IsSome(v) THEN as_u64(Unwrap(v)) ELSE None
    IN  IF IsSome(n) THEN Some([hi |-> Unwrap(n)[3], lo |-> Unwrap(n)[4]]) ELSE None

\* Option::unwrap_or
unwrap_or(o, default) == IF IsSome(o) THEN Unwrap(o) ELSE default

\* iter.filter_map(f).collect(), given the Option f returned for each item.
RECURSIVE collect(_)
collect(opts) ==
    IF opts = << >> THEN << >>
    ELSE LET h == Len(opts) \div 2
         IN  IF Len(opts) = 1 THEN opts[1]
             ELSE collect(SubSeq(opts, 1, h)) \o collect(SubSeq(opts, h + 1, Len(opts)))

(***************************************************************************)
(* parse.rs: the decoder                                                   *)
(***************************************************************************)

\* fn parse_datetime
parse_datetime(date_val, time_val) ==
    LET year == get_u32(date_val, 0)
        month == get_u32(date_val, 1)
        day == get_u32(date_val, 2)
        hour == get_u32(time_val, 0)
    IN  IF ~IsSome(year) \/ ~IsSome(month) \/ ~IsSome(day) \/ ~IsSome(hour) THEN None
        ELSE Some([year |-> Unwrap(year), month |-> Unwrap(month), day |-> Unwrap(day),
                   hour |-> Unwrap(hour),
                   minute |-> unwrap_or(get_u32(time_val, 1), U32(0))])

\* A mutation of parse_segment: a segment without an airport name is dropped.
parse_segment_needs_names(sf) ==
    LET from_code == get_str(sf, 3)
        from_name == get_str(sf, 4)
        to_code == get_str(sf, 6)
        to_name == get_str(sf, 5)
        departure_date == get_val(sf, 20)
        departure_time == get_val(sf, 8)
        arrival_date == get_val(sf, 21)
        arrival_time == get_val(sf, 10)
    IN  IF ~IsSome(from_code) \/ ~IsSome(to_code) \/ ~IsSome(from_name) \/ ~IsSome(to_name)
        THEN None
        ELSE IF ~IsSome(departure_date) \/ ~IsSome(departure_time) THEN None
        ELSE IF ~IsSome(parse_datetime(Unwrap(departure_date), Unwrap(departure_time)))
        THEN None
        ELSE IF ~IsSome(arrival_date) \/ ~IsSome(arrival_time) THEN None
        ELSE IF ~IsSome(parse_datetime(Unwrap(arrival_date), Unwrap(arrival_time)))
        THEN None
        ELSE Some([from_airport |-> [code |-> Unwrap(from_code), name |-> Unwrap(from_name)],
                   to_airport |-> [code |-> Unwrap(to_code), name |-> Unwrap(to_name)],
                   departure |-> Unwrap(parse_datetime(Unwrap(departure_date),
                                                       Unwrap(departure_time))),
                   arrival |-> Unwrap(parse_datetime(Unwrap(arrival_date),
                                                     Unwrap(arrival_time))),
                   duration_minutes |-> unwrap_or(get_u32(sf, 11), U32(0)),
                   aircraft |-> get_str(sf, 17)])

\* fn parse_segment
parse_segment(sf) ==
    LET from_code == get_str(sf, 3)
        to_code == get_str(sf, 6)
        departure_date == get_val(sf, 20)
        departure_time == get_val(sf, 8)
        arrival_date == get_val(sf, 21)
        arrival_time == get_val(sf, 10)
    IN  IF ~IsSome(from_code) THEN None
        ELSE IF ~IsSome(to_code) THEN None
        ELSE IF ~IsSome(departure_date) \/ ~IsSome(departure_time) THEN None
        ELSE IF ~IsSome(parse_datetime(Unwrap(departure_date), Unwrap(departure_time)))
        THEN None
        ELSE IF ~IsSome(arrival_date) \/ ~IsSome(arrival_time) THEN None
        ELSE IF ~IsSome(parse_datetime(Unwrap(arrival_date), Unwrap(arrival_time)))
        THEN None
        ELSE Some([from_airport |-> [code |-> Unwrap(from_code),
                                     name |-> unwrap_or(get_str(sf, 4), << >>)],
                   to_airport |-> [code |-> Unwrap(to_code),
                                   name |-> unwrap_or(get_str(sf, 5), << >>)],
                   departure |-> Unwrap(parse_datetime(Unwrap(departure_date),
                                                       Unwrap(departure_time))),
                   arrival |-> Unwrap(parse_datetime(Unwrap(arrival_date),
                                                     Unwrap(arrival_time))),
                   duration_minutes |-> unwrap_or(get_u32(sf, 11), U32(0)),
                   aircraft |-> get_str(sf, 17)])

\* v.as_array().map(|arr| arr.iter().filter_map(|v| v.as_str()...).collect())
strings_of(o) ==
    IF IsSome(o) /\ Unwrap(o).t = "arr"
    THEN LET arr == Unwrap(o).a
         IN  collect([i \in 1..Len(arr) |->
                        IF arr[i].t = "str" THEN Some(arr[i].s) ELSE None])
    ELSE << >>

\* arr.iter().filter_map(parse_segment).collect(), or the default
segments_of(o) ==
    IF IsSome(o) /\ Unwrap(o).t = "arr"
    THEN LET arr == Unwrap(o).a
         IN  collect([i \in 1..Len(arr) |-> parse_segment(arr[i])])
    ELSE << >>

\* A mutation of price_of: a missing price is reported as 0.
price_of_or_zero(k) ==
    LET v1 == get_val(k, 1)
        v2 == IF IsSome(v1) THEN get_val(Unwrap(v1), 0) ELSE None
    IN  Some(unwrap_or(IF IsSome(v2) THEN get_i64(Unwrap(v2), 1) ELSE None,
                       I64(FALSE, Zero64)))

\* get_val(k, 1).and_then(|v| get_val(v, 0)).and_then(|v| get_i64(v, 1))
price_of(k) ==
    LET v1 == get_val(k, 1)
        v2 == IF IsSome(v1) THEN get_val(Unwrap(v1), 0) ELSE None
    IN  IF IsSome(v2) THEN get_i64(Unwrap(v2), 1) ELSE None

\* A mutation of parse_flight: a flight one of whose segment entries cannot be
\* decoded is dropped.
parse_flight_strict(k) ==
    LET f == get_val(k, 0)
    IN  IF ~IsSome(f) THEN None
        ELSE LET flight == Unwrap(f)
                 segs == get_val(flight, 2)
                 extras == get_val(flight, 22)
             IN  IF IsSome(segs) /\ Unwrap(segs).t = "arr"
                    /\ Len(segments_of(segs)) # Len(Unwrap(segs).a)
                 THEN None
                 ELSE Some([flight_type |-> unwrap_or(get_str(flight, 0), << >>),
                            airlines |-> strings_of(get_val(flight, 1)),
                            segments |-> segments_of(segs),
                            price |-> price_of(k),
                            carbon |-> [emission_grams |->
                                            IF IsSome(extras) THEN get_i64(Unwrap(extras), 7)
                                            ELSE None,
                                        typical_grams |->
                                            IF IsSome(extras) THEN get_i64(Unwrap(extras), 8)
                                            ELSE None]])

\* fn parse_flight
parse_flight(k) ==
    LET f == get_val(k, 0)
    IN  IF ~IsSome(f) THEN None
        ELSE LET flight == Unwrap(f)
                 extras == get_val(flight, 22)
             IN  Some([flight_type |-> unwrap_or(get_str(flight, 0), << >>),
                       airlines |-> strings_of(get_val(flight, 1)),
                       segments |-> segments_of(get_val(flight, 2)),
                       price |-> price_of(k),
                       carbon |-> [emission_grams |->
                                       IF IsSome(extras) THEN get_i64(Unwrap(extras), 7)
                                       ELSE None,
                                   typical_grams |->
                                       IF IsSome(extras) THEN get_i64(Unwrap(extras), 8)
                                       ELSE None]])

\* The (code, name) pairs of a reference list: the loop over alliances_data
\* or airlines_data.
pairs_of(o) ==
    IF IsSome(o) /\ Unwrap(o).t = "arr"
    THEN LET arr == Unwrap(o).a
         IN  collect([i \in 1..Len(arr) |->
                        IF IsSome(get_str(arr[i], 0)) /\ IsSome(get_str(arr[i], 1))
                        THEN Some([code |-> Unwrap(get_str(arr[i], 0)),
                                   name |-> Unwrap(get_str(arr[i], 1))])
                        ELSE None])
    ELSE << >>

\* A mutation of parse_metadata: the airline list is read only when the
\* alliance list is an array.
parse_metadata_chained(payload) ==
    LET p7 == get_val(payload, 7)
        meta_root == IF IsSome(p7) THEN get_val(Unwrap(p7), 1) ELSE None
        alliances_data == IF IsSome(meta_root) THEN get_val(Unwrap(meta_root), 0) ELSE None
    IN  IF IsSome(alliances_data) /\ Unwrap(alliances_data).t = "arr"
        THEN [airlines |-> pairs_of(get_val(Unwrap(meta_root), 1)),
              alliances |-> pairs_of(alliances_data)]
        ELSE [airlines |-> << >>, alliances |-> << >>]

\* fn parse_metadata
parse_metadata(payload) ==
    LET p7 == get_val(payload, 7)
        meta_root == IF IsSome(p7) THEN get_val(Unwrap(p7), 1) ELSE None
    IN  IF IsSome(meta_root)
        THEN [airlines |-> pairs_of(get_val(Unwrap(meta_root), 1)),
              alliances |-> pairs_of(get_val(Unwrap(meta_root), 0))]
        ELSE [airlines |-> << >>, alliances |-> << >>]

\* Result<SearchResult, FlightError> of the decoder
Decoded(flights, metadata) ==
    [kind |-> "Ok", result |-> Some([flights |-> flights, metadata |-> metadata]),
     detail |-> ""]
JsParse(detail) == [kind |-> "JsParse", result |-> None, detail |-> detail]
ScriptTagNotFound == [kind |-> "ScriptTagNotFound", result |-> None, detail |-> ""]

\* A mutation of flights_of: decoding stops at the first element that gives
\* no flight.
RECURSIVE flights_until_gap(_)
flights_until_gap(arr) ==
    IF arr = << >> \/ ~IsSome(parse_flight(arr[1])) THEN << >>
    ELSE << Unwrap(parse_flight(arr[1])) >> \o flights_until_gap(Tail(arr))

\* arr.iter().filter_map(parse_flight).collect()
flights_of(arr) == collect([i \in 1..Len(arr) |-> parse_flight(arr[i])])

\* A mutation of parse_payload: a null results position is an error.
parse_payload_null_fails(payload) ==
    LET p3 == get_val(payload, 3)
        flights_root == IF IsSome(p3) THEN get_val(Unwrap(p3), 0) ELSE None
    IN  IF IsSome(flights_root)
        THEN IF Unwrap(flights_root).t # "arr"
             THEN JsParse("payload[3][0] is not an array")
             ELSE Decoded(flights_of(Unwrap(flights_root).a), parse_metadata(payload))
        ELSE Decoded(<< >>, parse_metadata(payload))

\* A mutation of parse_payload: a results position that is not an array
\* counts as one without results.
parse_payload_lenient(payload) ==
    LET metadata == parse_metadata(payload)
        p3 == get_val(payload, 3)
        flights_root == IF IsSome(p3) THEN get_val(Unwrap(p3), 0) ELSE None
    IN  IF IsSome(flights_root) /\ Unwrap(flights_root).t = "arr"
        THEN Decoded(flights_of(Unwrap(flights_root).a), metadata)
        ELSE Decoded(<< >>, metadata)

\* pub fn parse_payload
parse_payload(payload) ==
    LET metadata == parse_metadata(payload)
        p3 == get_val(payload, 3)
        flights_root == IF IsSome(p3) THEN get_val(Unwrap(p3), 0) ELSE None
    IN  IF IsSome(flights_root) /\ Unwrap(flights_root).t # "null"
        THEN IF Unwrap(flights_root).t # "arr"
             THEN JsParse("payload[3][0] is not an array")
             ELSE Decoded(flights_of(Unwrap(flights_root).a), metadata)
        ELSE Decoded(<< >>, metadata)

(***************************************************************************)
(* serde_json::from_str: the text of a tree                                *)
(***************************************************************************)

\* What a parsing step returns: the value read and the position after it.
PFail == [ok |-> FALSE, val |-> JNull, pos |-> 0]
PDone(val, pos) == [ok |-> TRUE, val |-> val, pos |-> pos]

IsDigit(s, pos) == pos <= Len(s) /\ s[pos] \in 48..57

RECURSIVE skip_ws(_, _)
skip_ws(s, pos) ==
    IF pos <= Len(s) /\ s[pos] \in {32, 9, 10, 13} THEN skip_ws(s, pos + 1) ELSE pos

RECURSIVE digits_end(_, _)
digits_end(s, pos) == IF IsDigit(s, pos) THEN digits_end(s, pos + 1) ELSE pos

\* mag * 10 + d in u64, with the overflow flag.
Mag64MulAdd10(m, d) ==
    LET t4 == m[4] * 10 + d
        t3 == m[3] * 10 + t4 \div Limb
        t2 == m[2] * 10 + t3 \div Limb
        t1 == m[1] * 10 + t2 \div Limb
    IN  [overflow |-> t1 >= Limb,
         mag |-> << t1 % Limb, t2 % Limb, t3 % Limb, t4 % Limb >>]

\* The significand: the digits of s[from..to] are taken while
\* significand * 10 + digit fits in u64.  The result is the significand and
\* the position of the first digit not taken.
RECURSIVE take_digits(_, _, _, _)

digit_taken(s, from, to, mag, more) ==
    IF more.overflow THEN [mag |-> mag, next |-> from]
    ELSE take_digits(s, from + 1, to, more.mag)

take_digits(s, from, to, mag) ==
    IF from > to THEN [mag |-> mag, next |-> from]
    ELSE digit_taken(s, from, to, mag, Mag64MulAdd10(mag, s[from] - 48))

\* The exponent digits s[from..to] as an i32 (-1: exp * 10 + digit leaves
\* the i32 range).
RECURSIVE exponent_of(_, _, _, _)
exponent_of(s, from, to, acc) ==
    IF from > to THEN acc
    ELSE IF acc >= 214748364 /\ (acc > 214748364 \/ s[from] - 48 > 7) THEN 0 - 1
    ELSE exponent_of(s, from + 1, to, acc * 10 + (s[from] - 48))

\* i32::saturating_add, i32::saturating_sub of a non-negative b
saturating_add(a, b) == IF a > 2147483647 - b THEN 2147483647 ELSE a + b
saturating_sub(a, b) == IF a < (0 - 2147483647) - 1 + b THEN (0 - 2147483647) - 1 ELSE a - b

\* A natural number as its bits, the least significant first and the most
\* significant a 1.
Bits16(n) == [i \in 1..16 |-> (n \div 2 ^ (i - 1)) % 2]

Bit(bits, i) == IF i <= Len(bits) THEN bits[i] ELSE 0

Trim(bits) ==
    IF \A i \in 1..Len(bits) : bits[i] = 0 THEN << >>
    ELSE SubSeq(bits, 1, CHOOSE i \in 1..Len(bits) :
                            bits[i] = 1 /\ \A j \in (i + 1)..Len(bits) : bits[j] = 0)

BitsOf(mag) == Trim(Bits16(mag[4]) \o Bits16(mag[3]) \o Bits16(mag[2]) \o Bits16(mag[1]))

\* bits + 1
Succ(bits) ==
    IF \A i \in 1..Len(bits) : bits[i] = 1 THEN [i \in 1..Len(bits) |-> 0] \o << 1 >>
    ELSE [i \in 1..Len(bits) |->
            IF \A j \in 1..i : bits[j] = 1 THEN 0
            ELSE IF \A j \in 1..(i - 1) : bits[j] = 1 THEN 1
            ELSE bits[i]]

\* The seven bytes of a number below 2^56, the least significant first.
Limbs8(bits) ==
    [j \in 1..7 |->
        Bit(bits, 8 * j - 7) + 2 * Bit(bits, 8 * j - 6) + 4 * Bit(bits, 8 * j - 5)
          + 8 * Bit(bits, 8 * j - 4) + 16 * Bit(bits, 8 * j - 3) + 32 * Bit(bits, 8 * j - 2)
          + 64 * Bit(bits, 8 * j - 1) + 128 * Bit(bits, 8 * j)]

\* The products of bytes that meet in column c (from byte i of a on).
RECURSIVE column(_, _, _, _)
column(a, b, c, i) ==
    IF i > Len(a) THEN 0
    ELSE (IF c + 1 - i \in 1..Len(b) THEN a[i] * b[c + 1 - i] ELSE 0) + column(a, b, c, i + 1)

\* The columns as bytes: each keeps its low byte and carries the rest.
RECURSIVE carried(_, _, _)
carried(columns, i, carry) ==
    IF i > Len(columns) THEN << >>
    ELSE << (columns[i] + carry) % 256 >>
           \o carried(columns, i + 1, (columns[i] + carry) \div 256)

\* a * b of two numbers below 2^56
BitMul(a, b) ==
    LET product == carried([c \in 1..14 |-> column(Limbs8(a), Limbs8(b), c, 1)], 1, 0)
    IN  Trim([i \in 1..112 |-> (product[(i - 1) \div 8 + 1] \div 2 ^ ((i - 1) % 8)) % 2])

\* An f64 that is a whole number: m * 2^k with m below 2^53 (2^53 itself
\* after a rounding up).
F64(mag, k) == [m |-> BitsOf(mag), k |-> k]

\* significand as f64: the nearest f64, the even one of two equally near.
rounded(high, low) ==
    IF low[Len(low)] = 1 /\ (high[1] = 1 \/ \E i \in 1..(Len(low) - 1) : low[i] = 1)
    THEN Succ(high) ELSE high

as_f64(bits) ==
    IF Len(bits) <= 53 THEN [m |-> bits, k |-> 0]
    ELSE [m |-> rounded(SubSeq(bits, Len(bits) - 52, Len(bits)),
                        SubSeq(bits, 1, Len(bits) - 53)),
          k |-> Len(bits) - 53]

\* POW10[289] to POW10[308]: the f64 nearest to each power of ten.  A
\* smaller power times a u64 is below 2^1021.
POW10 ==
    << F64(<< 16, 27403, 45563, 14412 >>, 908),
       F64(<< 20, 34254, 40570, 1631 >>, 911),
       F64(<< 25, 42818, 17944, 34806 >>, 914),
       F64(<< 16, 2185, 27599, 21754 >>, 918),
       F64(<< 20, 2731, 50883, 10808 >>, 921),
       F64(<< 25, 3414, 47219, 62663 >>, 924),
       F64(<< 31, 20652, 26256, 61944 >>, 927),
       F64(<< 19, 37483, 49178, 38715 >>, 931),
       F64(<< 24, 30470, 45089, 15626 >>, 934),
       F64(<< 30, 38088, 23593, 35916 >>, 937),
       F64(<< 19, 7421, 14745, 63408 >>, 941),
       F64(<< 23, 58428, 34816, 30108 >>, 944),
       F64(<< 29, 56651, 43520, 37635 >>, 947),
       F64(<< 18, 43599, 19008, 23522 >>, 951),
       F64(<< 23, 21731, 7376, 29402 >>, 954),
       F64(<< 29, 10779, 58372, 36752 >>, 957),
       F64(<< 18, 14929, 28290, 55738 >>, 961),
       F64(<< 22, 51429, 51747, 36905 >>, 964),
       F64(<< 28, 31519, 15532, 29747 >>, 967),
       F64(<< 17, 52467, 34283, 51360 >>, 971) >>

\* f64::is_infinite of a product whose exact value is bits * 2^k: it is
\* 2^1024 - 2^970 or more, half way from f64::MAX to 2^1024.
is_infinite(bits, k) ==
    IF k >= 970 THEN Len(bits) + (k - 970) >= 54
                     /\ (Len(bits) + (k - 970) > 54
                         \/ (k = 970 /\ \A i \in 1..Len(bits) : bits[i] = 1))
    ELSE Len(bits) - (970 - k) >= 54
         /\ (Len(bits) - (970 - k) > 54
             \/ \A i \in (970 - k + 1)..Len(bits) : bits[i] = 1)

\* f *= pow; f.is_infinite()
product_infinite(f, pow) == is_infinite(BitMul(f.m, pow.m), f.k + pow.k)

\* f64_from_parts fails: the significand is not 0 and the exponent is above
\* the powers of POW10, or the product with the power is infinite.
out_of_range(mag, exponent) ==
    /\ mag # Zero64
    /\ \/ exponent > 308
       \/ exponent >= 289 /\ product_infinite(as_f64(BitsOf(mag)), POW10[exponent - 288])

\* f64_from_parts: the float that ends before pos ("number out of range"
\* when it is not finite).
f64_from_parts(mag, exponent, pos) ==
    IF out_of_range(mag, exponent) THEN PFail ELSE PDone(JFloat, pos)

\* parse_exponent once its digits s[..pos - 1] are read as exp (-1: the
\* digits leave the i32 range, parse_exponent_overflow).
exponent_read(mag, starting_exp, exp_neg, exp, pos) ==
    IF exp < 0
    THEN IF mag # Zero64 /\ ~exp_neg THEN PFail ELSE PDone(JFloat, pos)
    ELSE f64_from_parts(mag,
                        IF exp_neg THEN saturating_sub(starting_exp, exp)
                        ELSE saturating_add(starting_exp, exp),
                        pos)

\* parse_exponent: s[pos] is e or E.
parse_exponent(s, pos, mag, starting_exp) ==
    LET signed == pos + 1 <= Len(s) /\ s[pos + 1] \in {43, 45}
        from == IF signed THEN pos + 2 ELSE pos + 1
        to == digits_end(s, from)
    IN  IF ~IsDigit(s, from) THEN PFail
        ELSE exponent_read(mag, starting_exp, signed /\ s[pos + 1] = 45,
                           exponent_of(s, from, to - 1, 0), to)

\* What follows the significand: an exponent or the end of the number.
significand_read(s, pos, mag, starting_exp) ==
    IF pos <= Len(s) /\ s[pos] \in {101, 69}
    THEN parse_exponent(s, pos, mag, starting_exp)
    ELSE f64_from_parts(mag, starting_exp, pos)

\* parse_decimal once the digits after the point are read into taken; the
\* digits not taken (parse_decimal_overflow) are skipped.
decimal_read(s, from, to, taken, exponent_before) ==
    significand_read(s, to, taken.mag, exponent_before - (taken.next - from))

\* parse_decimal: s[pos] is the point; a digit has to follow it.
parse_decimal(s, pos, whole, exponent_before) ==
    IF ~IsDigit(s, pos + 1) THEN PFail
    ELSE decimal_read(s, pos + 1, digits_end(s, pos + 1),
                      take_digits(s, pos + 1, digits_end(s, pos + 1) - 1,
                                  whole.mag),
                      exponent_before)

\* parse_integer once the digits s[..to - 1] are read into whole: the digits
\* not taken count as the exponent (parse_long_integer) and the number is a
\* float; so is a number with a fraction or an exponent, and -0.
integer_read(s, neg, to, whole) ==
    IF to <= Len(s) /\ s[to] = 46 THEN parse_decimal(s, to, whole, to - whole.next)
    ELSE IF whole.next < to \/ (to <= Len(s) /\ s[to] \in {101, 69})
    THEN significand_read(s, to, whole.mag, to - whole.next)
    ELSE IF ~neg THEN PDone(JPos(whole.mag), to)
    ELSE IF whole.mag = Zero64
            \/ ~(whole.mag[1] < 32768 \/ whole.mag = << 32768, 0, 0, 0 >>)
    THEN PDone(JFloat, to)
    ELSE PDone(JNeg(whole.mag), to)

\* parse_integer: the digits from s[from] on; a leading 0 stands alone.
parse_integer(s, neg, from, to) ==
    IF s[from] = 48 /\ IsDigit(s, to) THEN PFail
    ELSE integer_read(s, neg, to, take_digits(s, from, to - 1, Zero64))

\* A number: an integer literal gives PosInt or NegInt when it fits; any
\* other literal gives Float, or fails when its value is not a finite f64.
parse_number(s, pos) ==
    LET from == IF s[pos] = 45 THEN pos + 1 ELSE pos
    IN  IF ~IsDigit(s, from) THEN PFail
        ELSE parse_integer(s, s[pos] = 45, from,
                           IF s[from] = 48 THEN from + 1 ELSE digits_end(s, from))

\* The character an escape \c stands for (0: not a simple escape).
Unescape(c) ==
    CASE c = 34 -> 34 [] c = 92 -> 92 [] c = 47 -> 47 [] c = 98 -> 8
      [] c = 102 -> 12 [] c = 110 -> 10 [] c = 114 -> 13 [] c = 116 -> 9
      [] OTHER -> 0

\* A hexadecimal digit (-1: none).
HexDigit(c) ==
    IF c \in 48..57 THEN c - 48
    ELSE IF c \in 65..70 THEN c - 55
    ELSE IF c \in 97..102 THEN c - 87
    ELSE 0 - 1

\* The number of four hexadecimal digits (-1: one of them is none).
hex_value(a, b, c, d) ==
    IF a < 0 \/ b < 0 \/ c < 0 \/ d < 0 THEN 0 - 1
    ELSE a * 4096 + b * 256 + c * 16 + d

\* decode_hex_escape: the four hexadecimal digits from pos on (-1: none).
hex_escape(s, pos) ==
    IF pos + 3 > Len(s) THEN 0 - 1
    ELSE hex_value(HexDigit(s[pos]), HexDigit(s[pos + 1]),
                   HexDigit(s[pos + 2]), HexDigit(s[pos + 3]))

\* char::encode_utf8
encode_utf8(n) ==
    IF n < 128 THEN << n >>
    ELSE IF n < 2048 THEN << 192 + n \div 64, 128 + (n % 64) >>
    ELSE IF n < 65536
    THEN << 224 + n \div 4096, 128 + ((n \div 64) % 64), 128 + (n % 64) >>
    ELSE << 240 + n \div 262144, 128 + ((n \div 4096) % 64),
            128 + ((n \div 64) % 64), 128 + (n % 64) >>

\* The character of the escape whose digits start at pos and are n1, n2
\* being the digits of the \uXXXX that follows it (-1: none follows).  A
\* leading surrogate takes its trailing surrogate with it; a surrogate on
\* its own fails.
escape_read(pos, n1, n2) ==
    IF n1 < 0 \/ n1 \in 56320..57343 THEN PFail
    ELSE IF n1 \in 55296..56319 /\ n2 \notin 56320..57343 THEN PFail
    ELSE PDone(encode_utf8(IF n1 \in 55296..56319
                           THEN 65536 + (n1 - 55296) * 1024 + (n2 - 56320)
                           ELSE n1),
               IF n1 \in 55296..56319 THEN pos + 10 ELSE pos + 4)

\* The escape \uXXXX whose digits start at pos: the bytes of its character
\* and the position after it.
unicode_escape(s, pos) ==
    escape_read(pos, hex_escape(s, pos),
                IF pos + 5 <= Len(s) /\ s[pos + 4] = 92 /\ s[pos + 5] = 117
                THEN hex_escape(s, pos + 6) ELSE 0 - 1)

RECURSIVE string_body(_, _, _)

\* The string goes on after the escape u.
string_escaped(s, acc, u) ==
    IF u.ok THEN string_body(s, u.pos, acc \o u.val) ELSE PFail

\* The string goes on after the simple escape of the character c.
string_unescaped(s, pos, acc, c) ==
    IF c = 0 THEN PFail ELSE string_body(s, pos, Append(acc, c))

\* The characters of a string up to its closing quote.
string_body(s, pos, acc) ==
    IF pos > Len(s) THEN PFail
    ELSE IF s[pos] = 34 THEN PDone(JStr(acc), pos + 1)
    ELSE IF s[pos] < 32 THEN PFail
    ELSE IF s[pos] = 92
    THEN IF pos + 1 > Len(s) THEN PFail
         ELSE IF s[pos + 1] = 117
         THEN string_escaped(s, acc, unicode_escape(s, pos + 2))
         ELSE string_unescaped(s, pos + 2, acc, Unescape(s[pos + 1]))
    ELSE string_body(s, pos + 1, Append(acc, s[pos]))

parse_word(s, pos, word, val) ==
    IF pos + Len(word) - 1 <= Len(s) /\ SubSeq(s, pos, pos + Len(word) - 1) = word
    THEN PDone(val, pos + Len(word)) ELSE PFail

\* The arrays and objects a value may be nested in, itself included, are
\* fewer than this (Deserializer::remaining_depth).
RecursionLimit == 128

RECURSIVE parse_value(_, _, _)
RECURSIVE parse_elements(_, _, _, _)
RECURSIVE parse_members(_, _, _, _)

\* After an element: a comma and the next element, or the end of the array.
elements_next(s, p, acc, depth) ==
    IF p > Len(s) THEN PFail
    ELSE IF s[p] = 44 THEN parse_elements(s, p + 1, acc, depth)
    ELSE IF s[p] = 93 THEN PDone(JArr(acc), p + 1)
    ELSE PFail

element_read(s, acc, depth, r) ==
    IF r.ok THEN elements_next(s, skip_ws(s, r.pos), Append(acc, r.val), depth) ELSE PFail

\* The elements of an array, from the position of an element on.
parse_elements(s, pos, acc, depth) ==
    element_read(s, acc, depth, parse_value(s, skip_ws(s, pos), depth))

\* After a member: a comma and the next member, or the end of the object.
members_next(s, p, acc, depth) ==
    IF p > Len(s) THEN PFail
    ELSE IF s[p] = 44 THEN parse_members(s, p + 1, acc, depth)
    ELSE IF s[p] = 125 THEN PDone(JObj(acc), p + 1)
    ELSE PFail

member_read(s, acc, depth, key, r) ==
    IF r.ok THEN members_next(s, skip_ws(s, r.pos), map_insert(acc, key, r.val), depth)
    ELSE PFail

\* A member from its colon at c on.
member_value(s, c, acc, depth, key) ==
    IF c > Len(s) \/ s[c] # 58 THEN PFail
    ELSE member_read(s, acc, depth, key, parse_value(s, skip_ws(s, c + 1), depth))

key_read(s, acc, depth, key) ==
    IF key.ok THEN member_value(s, skip_ws(s, key.pos), acc, depth, key.val) ELSE PFail

\* A member whose key starts at k.
member_at(s, k, acc, depth) ==
    IF k <= Len(s) /\ s[k] = 34 THEN key_read(s, acc, depth, string_body(s, k + 1, << >>))
    ELSE PFail

\* The members of an object, from the position of a key on.
parse_members(s, pos, acc, depth) == member_at(s, skip_ws(s, pos), acc, depth)

\* An array from the position after its bracket on.
array_at(s, p, depth) ==
    IF p <= Len(s) /\ s[p] = 93 THEN PDone(JArr(<< >>), p + 1)
    ELSE parse_elements(s, p, << >>, depth)

\* An object from the position after its brace on.
object_at(s, p, depth) ==
    IF p <= Len(s) /\ s[p] = 125 THEN PDone(JObj(<< >>), p + 1)
    ELSE parse_members(s, p, << >>, depth)

\* A value at pos; depth is what remains of the recursion limit.
parse_value(s, pos, depth) ==
    IF pos > Len(s) THEN PFail
    ELSE IF s[pos] = 110 THEN parse_word(s, pos, Text(<<"n", "u", "l", "l">>), JNull)
    ELSE IF s[pos] = 116 THEN parse_word(s, pos, Text(<<"t", "r", "u", "e">>), JBool(TRUE))
    ELSE IF s[pos] = 102
    THEN parse_word(s, pos, Text(<<"f", "a", "l", "s", "e">>), JBool(FALSE))
    ELSE IF s[pos] = 34 THEN string_body(s, pos + 1, << >>)
    ELSE IF s[pos] = 45 \/ s[pos] \in 48..57 THEN parse_number(s, pos)
    ELSE IF s[pos] \in {91, 123} /\ depth - 1 = 0 THEN PFail
    ELSE IF s[pos] = 91 THEN array_at(s, skip_ws(s, pos + 1), depth - 1)
    ELSE IF s[pos] = 123 THEN object_at(s, skip_ws(s, pos + 1), depth - 1)
    ELSE PFail

\* serde_json::from_str: one value, with nothing but whitespace around it.
value_read(s, r) == IF r.ok /\ skip_ws(s, r.pos) > Len(s) THEN Some(r.val) ELSE None

from_str(s) == value_read(s, parse_value(s, skip_ws(s, 1), RecursionLimit))

(***************************************************************************)
(* parse.rs: from the document to the tree                                 *)
(***************************************************************************)

\* An element of the parsed document (Html::parse_document), in document
\* order: its tag, its class attribute if it has one, and its inner text.
Element(tag, class, text) == [tag |-> tag, class |-> class, text |-> text]

SCRIPT == Text(<<"s", "c", "r", "i", "p", "t">>)
DS1 == Text(<<"d", "s", ":", "1">>)
DATA_MARKER == Text(<<"d", "a", "t", "a", ":">>)

\* Result<String, FlightError> and Result<Value, FlightError>
ScriptOk(text) == [kind |-> "Script", result |-> Some(text), detail |-> ""]
ValueOk(tree) == [kind |-> "Value", result |-> Some(tree), detail |-> ""]

\* The elements script[class="ds:1"] selects.
Selected(doc) ==
    {i \in 1..Len(doc) : doc[i].tag = SCRIPT /\ doc[i].class = Some(DS1)}

\* pub fn extract_script: the inner text of the first selected element.
extract_script(doc) ==
    LET found == Selected(doc)
    IN  IF found = {} THEN ScriptTagNotFound
        ELSE ScriptOk(doc[CHOOSE i \in found : \A j \in found : i <= j].text)

\* The positions at which pat occurs in s.
Occurrences(s, pat) ==
    {i \in 1..(Len(s) - Len(pat) + 1) : SubSeq(s, i, i + Len(pat) - 1) = pat}

\* str::split_once: the text after the first occurrence of pat.
after_first(s, pat) ==
    LET occ == Occurrences(s, pat)
    IN  IF occ = {} THEN None
        ELSE Some(SubSeq(s, (CHOOSE i \in occ : \A j \in occ : i <= j) + Len(pat), Len(s)))

\* A mutation of before_last: the text is cut at its first comma.
before_first(s, pat) ==
    LET occ == Occurrences(s, pat)
    IN  IF occ = {} THEN None
        ELSE Some(SubSeq(s, 1, (CHOOSE i \in occ : \A j \in occ : i <= j) - 1))

\* str::rsplit_once: the text before the last occurrence of pat.
before_last(s, pat) ==
    LET occ == Occurrences(s, pat)
    IN  IF occ = {} THEN None
        ELSE Some(SubSeq(s, 1, (CHOOSE i \in occ : \A j \in occ : i >= j) - 1))

\* The Display text of a serde_json::Error, whatever the syntax error is.
SyntaxError == "serde_json::Error"

\* pub fn parse_js
parse_js(js) ==
    LET data == after_first(js, DATA_MARKER)
        left == before_last(Unwrap(data), << 44 >>)
        tree == from_str(Unwrap(left))
    IN  IF ~IsSome(data) THEN JsParse("no 'data:' marker found")
        ELSE IF ~IsSome(left) THEN JsParse("no trailing comma found")
        ELSE IF ~IsSome(tree) THEN JsParse(SyntaxError)
        ELSE ValueOk(Unwrap(tree))

\* A mutation of parse_html: a script that cannot be parsed is reported as a
\* missing script.
parse_html_one_error(doc) ==
    LET js == extract_script(doc)
        payload == parse_js(Unwrap(js.result))
    IN  IF js.kind # "Script" THEN js
        ELSE IF payload.kind # "Value" THEN ScriptTagNotFound
        ELSE parse_payload(Unwrap(payload.result))

\* pub fn parse_html
parse_html(doc) ==
    LET js == extract_script(doc)
        payload == parse_js(Unwrap(js.result))
    IN  IF js.kind # "Script" THEN js
        ELSE IF payload.kind # "Value" THEN payload
        ELSE parse_payload(Unwrap(payload.result))

(***************************************************************************)
(* main.rs, mcp.rs: apply_top                                              *)
(***************************************************************************)

\* i64::MAX
I64_MAX == I64(FALSE, << 32767, 65535, 65535, 65535 >>)

MagLess(a, b) ==
    \E i \in 1..4 : a[i] < b[i] /\ \A j \in 1..(i - 1) : a[j] = b[j]

\* a < b in i64
I64Less(a, b) ==
    IF a.neg # b.neg THEN a.neg
    ELSE IF a.neg THEN MagLess(b.mag, a.mag)
    ELSE MagLess(a.mag, b.mag)

\* |f| f.price.unwrap_or(i64::MAX)
sort_key(f) == unwrap_or(f.price, I64_MAX)

\* A mutation of sort_by_key: the flights are left in decode order.
unsorted(flights) == flights

\* slice::sort_by_key, a stable sort: each flight goes after the flights
\* before it whose key is not greater.
RECURSIVE sort_by_key(_)
sort_by_key(flights) ==
    IF flights = << >> THEN << >>
    ELSE LET n == Len(flights)
             last == flights[n]
             front == sort_by_key(SubSeq(flights, 1, n - 1))
             keep == Cardinality({i \in 1..(n - 1) :
                                    ~I64Less(sort_key(last), sort_key(front[i]))})
         IN  SubSeq(front, 1, keep) \o << last >> \o SubSeq(front, keep + 1, n - 1)

\* Vec::truncate
truncate(flights, n) ==
    IF n < Len(flights) THEN SubSeq(flights, 1, n) ELSE flights

\* fn apply_top(result: &mut SearchResult, n: usize): the flights afterwards.
apply_top(flights, n) == truncate(sort_by_key(flights), n)

(***************************************************************************)
(* Responses: the trees the decoder is applied to                          *)
(***************************************************************************)

MaxSegs == 2
MaxResults == 2
MaxFlights == 3
MaxTop == 4

\* vec![Value::Null; n]
Nulls(n) == [i \in 1..n |-> JNull]

\* The array a with the entries of mods (pairs of a 0-based index and a
\* value) put in place.
With(a, mods) ==
    [i \in 1..Len(a) |->
        IF \E m \in mods : m[1] = i - 1
        THEN (CHOOSE m \in mods : m[1] = i - 1)[2]
        ELSE a[i]]

\* The subsets of at most two entries of mods that set distinct indices.
UpToTwo(mods) ==
    {{}} \cup {{m} : m \in mods}
         \cup {{p[1], p[2]} : p \in {q \in mods \X mods : q[1][1] # q[2][1]}}

Ints(ns) == JArr([i \in 1..Len(ns) |-> JInt(ns[i])])

HelName ==
    Text(<<"H", "e", "l", "s", "i", "n", "k", "i", " ", "A", "i", "r", "p", "o", "r", "t">>)
BcnName ==
    Text(<<"B", "a", "r", "c", "e", "l", "o", "n", "a", " ", "A", "i", "r", "p", "o", "r", "t">>)
CDG == Text(<<"C", "D", "G">>)
A350 == Text(<<"A", "i", "r", "b", "u", "s", " ", "A", "3", "5", "0">>)
Regular == Text(<<"R", "e", "g", "u", "l", "a", "r">>)

\* make_segment of the decoder tests
BaseSegment ==
    With(Nulls(22),
         { <<3, JStr(HEL)>>, <<4, JStr(HelName)>>, <<5, JStr(BcnName)>>, <<6, JStr(BCN)>>,
           <<8, Ints(<<10, 30>>)>>, <<10, Ints(<<14, 45>>)>>, <<11, JInt(255)>>,
           <<17, JStr(A350)>>, <<20, Ints(<<2026, 3, 1>>)>>, <<21, Ints(<<2026, 3, 1>>)>> })

\* The ways a segment entry departs from make_segment.
SegmentMods ==
    { <<3, JNull>>, <<3, JInt(7)>>, <<6, JNull>>, <<6, Ints(<<1>>)>>,
      <<4, JNull>>, <<4, JInt(1)>>, <<5, JNull>>, <<5, JFloat>>,
      <<8, Ints(<<9>>)>>, <<8, Ints(<< >>)>>, <<8, JNull>>, <<8, Ints(<<0 - 1, 30>>)>>,
      <<8, JArr(<<JInt(10), JStr(HEL)>>)>>,
      <<10, Ints(<<18>>)>>, <<10, JNull>>, <<10, JArr(<<JFloat, JInt(5)>>)>>,
      <<11, JNull>>, <<11, JFloat>>, <<17, JNull>>, <<17, JInt(350)>>,
      <<20, JNull>>, <<20, Ints(<<2026, 3>>)>>,
      <<20, JArr(<<JInt(2026), JFloat, JInt(1)>>)>>,
      <<20, JArr(<<JPos(<<0, 1, 0, 5>>), JInt(3), JInt(1)>>)>>,
      <<21, JNull>>, <<21, Ints(<<0 - 2026, 3, 1>>)>>, <<21, JStr(HEL)>> }

\* Segment entries: make_segment with up to two departures, and entries that
\* are no array of 22 items.
SegmentEntries ==
    { JArr(With(BaseSegment, mods)) : mods \in UpToTwo(SegmentMods) }
        \cup { JNull, JStr(HEL), JArr(Nulls(10)), JArr(SubSeq(BaseSegment, 1, 21)),
               JArr(BaseSegment \o << JNull, JInt(1) >>) }

\* A few of them, for flights of several segments.
SegmentSamples ==
    { JArr(BaseSegment),
      JArr(With(BaseSegment, {<<3, JStr(BCN)>>, <<6, JStr(CDG)>>, <<8, Ints(<<16>>)>>})),
      JArr(With(BaseSegment, {<<4, JNull>>, <<17, JNull>>})),
      JArr(With(BaseSegment, {<<6, JNull>>})),
      JArr(With(BaseSegment, {<<20, Ints(<<2026, 3>>)>>})),
      JNull }

\* make_flight_entry of the decoder tests: the flight and its price.
Extras(emission, typical) == JArr(With(Nulls(9), {<<7, emission>>, <<8, typical>>}))

Flight(type, segments, extras) ==
    JArr(With(Nulls(23), { <<0, type>>, <<1, JArr(<<JStr(AY)>>)>>, <<2, segments>>,
                           <<22, extras>> }))

Priced(price) == JArr(<< JArr(<< JNull, price >>) >>)

\* The tree of a response: the results at [3][0], the reference lists at [7][1].
Payload(results, reference) ==
    JArr(<< JNull, JNull, JNull, JArr(<< results >>), JNull, JNull, JNull,
            JArr(<< JNull, reference >>) >>)

EmptyReference == JArr(<< JArr(<< >>), JArr(<< >>) >>)

DefaultExtras == Extras(JInt(14500), JInt(18000))

\* Responses with one flight of one segment.
SegmentTrees ==
    { Payload(JArr(<< JArr(<< Flight(JStr(Regular), JArr(<< seg >>), DefaultExtras),
                              Priced(JInt(299)) >>) >>), EmptyReference) :
        seg \in SegmentEntries }

\* Responses with one flight of several segments.
ItineraryTrees ==
    { Payload(JArr(<< JArr(<< Flight(JStr(Regular), JArr(segs), DefaultExtras),
                              Priced(JInt(299)) >>) >>), EmptyReference) :
        segs \in SeqsOf(SegmentSamples, 0, MaxSegs) }

\* Flight entries: decodable ones, one with a segment that cannot be decoded,
\* and entries that are no flight at all.
FlightSamples ==
    { JArr(<< Flight(JStr(Regular), JArr(<< JArr(BaseSegment) >>), DefaultExtras),
              Priced(JInt(299)) >>),
      JArr(<< Flight(JStr(CDG), JArr(<< JArr(BaseSegment), JArr(BaseSegment) >>), JNull),
              Priced(JInt(120)) >>),
      JArr(<< Flight(JNull, JArr(<< JArr(With(BaseSegment, {<<3, JNull>>})) >>),
                     DefaultExtras) >>),
      JArr(<< Flight(JStr(Regular), JNull, JNull), JNull >>),
      JNull, JInt(5), JArr(<< >>), JArr(<< JNull >>) }

ResultTrees ==
    { Payload(JArr(fs), EmptyReference) : fs \in SeqsOf(FlightSamples, 0, MaxResults) }


\* What a flight entry holds after the flight: nothing, or what stands where
\* the price is expected.
PriceParts ==
    { << >>, << JNull >>, << JArr(<< >>) >>, << JArr(<< JNull >>) >>,
      << JArr(<< JArr(<< JNull >>) >>) >>, << Priced(JInt(299)) >>, << Priced(JInt(0)) >>,
      << Priced(JInt(0 - 5)) >>, << Priced(JStr(HEL)) >>, << Priced(JFloat) >>,
      << Priced(JNull) >>, << Priced(JPos(<<32768, 0, 0, 0>>)) >>,
      << Priced(JPos(<<32767, 65535, 65535, 65535>>)) >>, << JInt(299) >> }

\* What stands at index 22 of the flight, where the carbon figures are expected.
ExtrasParts ==
    { JNull, JArr(Nulls(7)), JArr(Nulls(8) \o << JInt(18000) >>), JInt(14500),
      Extras(JInt(14500), JInt(18000)), Extras(JInt(14500), JNull),
      Extras(JNull, JInt(18000)), Extras(JStr(HEL), JInt(0)), Extras(JInt(0 - 1), JFloat),
      JArr(SubSeq(Nulls(7) \o << JInt(14500) >>, 1, 8)) }

\* Responses with one flight: every price part with every extras part.
FareTrees ==
    { Payload(JArr(<< JArr(<< Flight(JStr(Regular), JArr(<< JArr(BaseSegment) >>), extras) >>
                           \o price) >>), EmptyReference) :
        price \in PriceParts, extras \in ExtrasParts }

StarName == Text(<<"S", "t", "a", "r">>)
STAR == Text(<<"*", "A">>)
Finnair == Text(<<"F", "i", "n", "n", "a", "i", "r">>)
Iberia == Text(<<"I", "b", "e", "r", "i", "a">>)

Pair(code, name) == JArr(<< JStr(code), JStr(name) >>)

\* What stands where a reference list (alliances or airlines) is expected.
ReferenceLists ==
    { JNull, JInt(5), JStr(AY), JArr(<< >>),
      JArr(<< Pair(STAR, StarName), Pair(IB, Iberia) >>),
      JArr(<< Pair(AY, Finnair), Pair(IB, Iberia) >>),
      JArr(<< JArr(<< JStr(AY) >>), Pair(IB, Iberia) >>),
      JArr(<< JArr(<< JInt(5), JStr(Finnair) >>), JNull, Pair(AY, Finnair),
              JArr(<< JStr(IB), JNull >>), JArr(<< JStr(IB), JStr(Iberia), JInt(1) >>) >>) }

\* What stands at [3][0], where the results are expected.
ResultsParts ==
    { JNull, JArr(<< >>), JInt(5),
      JArr(<< JArr(<< Flight(JStr(Regular), JArr(<< JArr(BaseSegment) >>), DefaultExtras),
                      Priced(JInt(299)) >>) >>) }

\* Responses that vary the two reference lists and the results.
ReferenceTrees ==
    { Payload(results, JArr(<< alliances, airlines >>)) :
        results \in ResultsParts, alliances \in ReferenceLists, airlines \in ReferenceLists }
      \cup { JArr(SubSeq(Payload(JNull, EmptyReference).a, 1, 7)),
             JArr(With(Payload(JNull, EmptyReference).a, {<<7, JNull>>})),
             JArr(With(Payload(JNull, EmptyReference).a, {<<7, JArr(<< JNull >>)>>})),
             JArr(With(Payload(JNull, EmptyReference).a, {<<7, JArr(<< JNull, JNull >>)>>})),
             JArr(With(Payload(JNull, EmptyReference).a,
                       {<<7, JArr(<< JNull, JArr(<< JArr(<< Pair(STAR, StarName) >>) >>) >>)>>})),
             JArr(With(Payload(JNull, EmptyReference).a,
                       {<<7, JArr(<< JNull, JInt(5) >>)>>})) }

\* Trees whose results position is null, absent or of another type.
ShapeTrees ==
    { JNull, JInt(5), JStr(HEL), JBool(TRUE), JFloat, JObj(<< >>),
      JObj(<< JStr(HEL), JNull >>), JArr(<< >>), JArr(Nulls(3)), JArr(Nulls(4)),
      JArr(Nulls(8)) }
      \cup { JArr(With(Nulls(8), {<<3, at3>>, <<7, JArr(<< JNull, reference >>)>>})) :
               at3 \in { JNull, JInt(5), JStr(HEL), JObj(<< >>), JArr(<< >>), JArr(<< JNull >>),
                         JArr(<< JNull, JInt(5) >>), JArr(<< JArr(<< >>) >>),
                         JArr(<< JInt(5) >>), JArr(<< JStr(HEL) >>), JArr(<< JBool(FALSE) >>),
                         JArr(<< JObj(<< >>) >>), JArr(<< JFloat >>) },
               reference \in { EmptyReference,
                               JArr(<< JArr(<< Pair(STAR, StarName) >>),
                                       JArr(<< Pair(AY, Finnair) >>) >>) } }

\* Responses whose flights differ in their price only: flight i is labelled
\* i, and has no price, a price, or the greatest price an i64 holds.
Label(i) == << 64 + i >>
TopPrices ==
    { << >>, << Priced(JInt(120)) >>, << Priced(JInt(299)) >>,
      << Priced(JPos(<<32767, 65535, 65535, 65535>>)) >> }
TopTrees ==
    { Payload(JArr([i \in 1..Len(prices) |->
                      JArr(<< Flight(JStr(Label(i)), JArr(<< >>), JNull) >> \o prices[i])]),
              EmptyReference) :
        prices \in SeqsOf(TopPrices, 0, MaxFlights) }

Trees ==
    SegmentTrees \cup ItineraryTrees \cup ResultTrees \cup FareTrees
        \cup ReferenceTrees \cup ShapeTrees \cup TopTrees

(***************************************************************************)
(* Script texts and documents                                              *)
(***************************************************************************)

MaxElems == 2

RECURSIVE Decimal(_)
Decimal(n) == IF n < 10 THEN << 48 + n >> ELSE Decimal(n \div 10) \o << 48 + (n % 10) >>

\* The text of a tree of nulls, booleans, integers below 65536, strings of
\* plain characters and arrays, as the upstream writes it (no spaces).
RECURSIVE to_text(_)
RECURSIVE join_texts(_)
join_texts(items) ==
    IF items = << >> THEN << >>
    ELSE IF Len(items) = 1 THEN to_text(items[1])
    ELSE to_text(items[1]) \o << 44 >> \o join_texts(Tail(items))
to_text(v) ==
    CASE v.t = "null" -> Text(<<"n", "u", "l", "l">>)
      [] v.t = "true" -> Text(<<"t", "r", "u", "e">>)
      [] v.t = "false" -> Text(<<"f", "a", "l", "s", "e">>)
      [] v.t = "posint" -> Decimal(v.mag[4])
      [] v.t = "negint" -> << 45 >> \o Decimal(v.mag[4])
      [] v.t = "str" -> << 34 >> \o v.s \o << 34 >>
      [] v.t = "arr" -> << 91 >> \o join_texts(v.a) \o << 93 >>

SIDE_CHANNEL == Text(<<",", "s", "i", "d", "e", "C", "h", "a", "n", "n", "e", "l">>)

\* What precedes the marker in a script, what the tree is, what follows the
\* side-channel marker.
Prefixes ==
    { << >>, Text(<<"s", "o", "m", "e", "_", "f", "u", "n", "c", "(", ")", ";">>),
      Text(<<"A", "F", "(", "{", "k", ":", "1", ",">>) }
JsTrees ==
    { Ints(<<1, 2, 3>>), Payload(JNull, EmptyReference), JArr(<< >>), JNull, JStr(HEL),
      JArr(<< JStr(Text(<<"a", ",", "b">>)), JInt(0 - 7), JBool(TRUE) >>),
      Payload(JArr(<< JArr(<< Flight(JStr(Regular), JArr(<< >>), JNull),
                              Priced(JInt(299)) >>) >>),
              JArr(<< JArr(<< >>), JArr(<< Pair(AY, Finnair) >>) >>)),
      Payload(JInt(5), EmptyReference) }
Suffixes ==
    { << >>, Text(<<":", " ", "{", "}", "}", ")", ";">>),
      Text(<<":", "{", "a", ":", "1", ",", "b", ":", "2", "}", "}", ")", ";">>),
      Text(<<",">>) }

\* Scripts of the form P data: J ,sideChannel S.
MarkedTexts ==
    { pre \o DATA_MARKER \o to_text(tree) \o SIDE_CHANNEL \o post :
        pre \in Prefixes, tree \in JsTrees, post \in Suffixes }

\* Scripts without a marker, without a comma after it, or with a slice that
\* is no tree.
BrokenTexts ==
    { << >>, Text(<<"n", "o", " ", "m", "a", "r", "k", "e", "r">>),
      Text(<<"d", "a", "t", "a">>), Text(<<"D", "A", "T", "A", ":", "[", "]", ",">>),
      DATA_MARKER, DATA_MARKER \o Text(<<"[", "1", "]">>),
      Text(<<"a", ",", "b">>) \o DATA_MARKER \o Text(<<"[", "1", "]">>),
      DATA_MARKER \o Text(<<",", "x">>),
      DATA_MARKER \o Text(<<"[", "1", ",", "2", ",", "s">>),
      DATA_MARKER \o Text(<<"[", "1", " ", "2", "]", ",", "s">>),
      DATA_MARKER \o Text(<<"[", "1", "]", "]", ",", "s">>),
      DATA_MARKER \o Text(<<"0", "1", ",", "s">>),
      DATA_MARKER \o Text(<<"n", "u", "l", ",", "s">>),
      DATA_MARKER \o Text(<<"\"", "a", ",", "s">>),
      DATA_MARKER \o DATA_MARKER \o Text(<<"[", "1", "]", ",", "s">>) }

\* Scripts whose slice has the grammar of a tree and is none all the same:
\* a number no f64 holds, a number whose significand times the power of ten
\* is infinite in f64, a surrogate on its own.
RefusedTexts ==
    { DATA_MARKER \o Text(<<"[", "1", "e", "9", "9", "9", "]">>) \o SIDE_CHANNEL,
      DATA_MARKER \o Text(<<"[", "1", ".", "7", "9", "7", "6", "9", "3", "1", "3", "4", "8",
                            "6", "2", "3", "1", "5", "8", "e", "3", "0", "8", "]">>)
        \o SIDE_CHANNEL,
      DATA_MARKER \o Text(<<"[", "\"", "\\", "u", "d", "8", "3", "d", "\"", "]">>)
        \o SIDE_CHANNEL }

\* Scripts the upstream layout allows beside these: spaces around the tree,
\* escapes in a string, an object whose keys repeat and are out of order, a
\* number just below the largest f64.
SpacedTexts ==
    { DATA_MARKER \o Text(<<"[", "1", "7", "9", "7", "6", "9", "3", "1", "3", "4", "8", "6",
                            "2", "3", "1", "5", "8", "1", "e", "2", "9", "1", "]">>)
        \o SIDE_CHANNEL,
      DATA_MARKER \o Text(<<"[", "n", "u", "l", "l", ",", "\"", "H", "\\", "u", "0", "0",
                            "4", "5", "\\", "u", "2", "0", "1", "3", "L", "\"", "]">>)
        \o SIDE_CHANNEL,
      DATA_MARKER \o Text(<<"{", "\"", "b", "\"", ":", "1", ",", "\"", "a", "\"", ":", "1",
                            ",", "\"", "b", "\"", ":", "2", "}">>)
        \o SIDE_CHANNEL,
      DATA_MARKER \o Text(<<" ", "[", " ", "1", " ", ",", " ", "[", " ", "]", " ", "]", " ">>)
        \o SIDE_CHANNEL,
      DATA_MARKER \o Text(<<"{", "\"", "k", "\"", ":", "[", "1", ".", "5", "e", "3", "]", "}">>)
        \o SIDE_CHANNEL }

JsTexts == MarkedTexts \cup BrokenTexts \cup RefusedTexts \cup SpacedTexts

DS0 == Text(<<"d", "s", ":", "0">>)
DIV == Text(<<"d", "i", "v">>)

\* Elements: the marked script with a few texts, and elements the selector
\* does not match.
DocTexts ==
    { DATA_MARKER \o to_text(Ints(<<1, 2, 3>>)) \o SIDE_CHANNEL,
      DATA_MARKER \o to_text(Payload(JNull, EmptyReference)) \o SIDE_CHANNEL,
      DATA_MARKER \o to_text(Payload(JInt(5), EmptyReference)) \o SIDE_CHANNEL,
      Text(<<"n", "o", " ", "m", "a", "r", "k", "e", "r">>),
      DATA_MARKER \o Text(<<"[", "1", "]">>) }
Elements ==
    { Element(SCRIPT, Some(DS1), text) : text \in DocTexts }
      \cup { Element(SCRIPT, Some(DS0), Text(<<"x">>)),
             Element(SCRIPT, None, DATA_MARKER \o Text(<<"[", "1", "]", ",", "s">>)),
             Element(DIV, Some(DS1), DATA_MARKER \o Text(<<"[", "2", "]", ",", "s">>)),
             Element(SCRIPT, Some(DS1 \o Text(<<" ", "x">>)),
                     DATA_MARKER \o Text(<<"[", "3", "]", ",", "s">>)) }
Documents ==
    SeqsOf(Elements, 0, MaxElems)
      \cup { << Element(SCRIPT, Some(DS0), Text(<<"x">>)), Element(SCRIPT, Some(DS1), text) >> :
               text \in JsTexts }

(***************************************************************************)
(* The decoder's operations                                                *)
(***************************************************************************)

HtmlInput(doc) == [kind |-> "html", doc |-> doc, js |-> << >>, tree |-> << >>]
JsInput(js) == [kind |-> "js", doc |-> << >>, js |-> js, tree |-> << >>]
TreeInput(tree) == [kind |-> "tree", doc |-> << >>, js |-> << >>, tree |-> Some(tree)]

DecoderInputs ==
    {HtmlInput(doc) : doc \in Documents} \cup {JsInput(js) : js \in JsTexts}
        \cup {TreeInput(tree) : tree \in Trees}

\* The request variables while the decoder is at work.
RequestIdle ==
    /\ query = QueryParams(<< >>, DefaultPassengers, "Economy", "OneWay", EN, USD)
    /\ verdict = NotRun
    /\ wire = None /\ params = None /\ base = None

InitDecode ==
    /\ input \in DecoderInputs
    /\ output = NotDecoded
    /\ meta = None
    /\ shown = None
    /\ RequestIdle
    /\ CallIdle
    /\ run = NoRun

\* parse_html(html)
ParseHtml ==
    /\ input.kind = "html" /\ output = NotDecoded
    /\ output' = parse_html(input.doc)
    /\ UNCHANGED << input, meta, shown, request_vars, run, call_vars >>

\* parse_js(js)
ParseJs ==
    /\ input.kind = "js" /\ output = NotDecoded
    /\ output' = parse_js(input.js)
    /\ UNCHANGED << input, meta, shown, request_vars, run, call_vars >>

\* parse_payload(payload); meta is its local variable metadata.
ParsePayload ==
    /\ input.kind = "tree" /\ output = NotDecoded
    /\ output' = parse_payload(Unwrap(input.tree))
    /\ meta' = Some(parse_metadata(Unwrap(input.tree)))
    /\ UNCHANGED << input, shown, request_vars, run, call_vars >>

\* apply_top(&mut result, n) on a search result
ApplyTop ==
    /\ output.kind = "Ok" /\ shown = None
    /\ \E n \in 0..MaxTop :
           shown' = Some([n |-> n, flights |-> apply_top(Unwrap(output.result).flights, n)])
    /\ UNCHANGED << input, output, meta, request_vars, run, call_vars >>

NextDecode == ParseHtml \/ ParseJs \/ ParsePayload \/ ApplyTop

SpecDecode == InitDecode /\ [][NextDecode]_vars

(***************************************************************************)
(* The front ends: the search command of the command line, the tools of    *)
(* the MCP server and the functions of the library.  A run holds the       *)
(* entry point, the --open and --url flags, whether the destination holds  *)
(* a comma, the request built for each                                     *)
(* destination, the position in the destination loop, the calls made so    *)
(* far, the search tasks started, the tasks that completed and are not     *)
(* joined yet in completion order, the result map of a fan-out, and the    *)
(* result a search with one destination prints or returns.                 *)
(***************************************************************************)

MaxDests == 2

\* The legs and requests the front ends build from their arguments: airport
\* codes are upper-cased, nothing else is checked.
FrontLegs ==
    { Leg(date, HEL, to, None, None) :
        date \in {ymd(2026, 3, 1), ymd(2026, 2, 30)},
        to \in {BCN, BKK, Text(<<"B", "C">>)} }

FrontRequests ==
    { QueryParams(<< leg >>, Passengers(a, 0, 0, 0), "Economy", "OneWay", EN, USD) :
        leg \in FrontLegs, a \in {0, 1} }

\* One request per destination: the destinations differ, the rest is shared.
\* A destination that is nothing but commas and spaces gives no request.
FanOuts ==
    { reqs \in SeqsOf(FrontRequests, 0, MaxDests) :
        \A i \in 1..Len(reqs) :
            /\ reqs[i].legs[1].date = reqs[1].legs[1].date
            /\ reqs[i].passengers = reqs[1].passengers }

Entries == {"cli", "mcp_search", "mcp_get_url", "lib_search", "lib_url"}

Run(entry, open, url, json, top, multi, reqs) ==
    [entry |-> entry, open |-> open, url |-> url, json |-> json, top |-> top,
     multi |-> multi, reqs |-> reqs, i |-> 1, pc |-> "start", calls |-> << >>, tasks |-> << >>,
     done |-> << >>, results |-> << >>, out |-> None]

\* --top, the "top" argument of flyr_search: absent or a number.
Tops == {None, Some(1)}

\* The destinations of a run: one request without a comma, the requests of
\* the codes between the commas with one.
Destinations(multi) == { reqs \in FanOuts : multi \/ Len(reqs) = 1 }

RunsOf(multi) ==
    { Run("cli", open, url, json, top, multi, reqs) :
        open \in BOOLEAN, url \in BOOLEAN, json \in BOOLEAN, top \in Tops,
        reqs \in Destinations(multi) }
      \cup { Run("mcp_search", FALSE, FALSE, FALSE, top, multi, reqs) :
               top \in Tops, reqs \in Destinations(multi) }
      \cup { Run("mcp_get_url", FALSE, FALSE, FALSE, None, multi, reqs) :
               reqs \in Destinations(multi) }

Runs ==
    RunsOf(FALSE) \cup RunsOf(TRUE)
      \cup { Run(entry, FALSE, FALSE, FALSE, None, FALSE, << req >>) :
               entry \in {"lib_search", "lib_url"}, req \in FrontRequests }

\* What the upstream answers: a page with two flights, the dearer first, a
\* page without the script of the payload (parse_html: ScriptTagNotFound) or
\* a page whose script holds no payload (parse_html: JsParse).
FlightsPage ==
    << Element(SCRIPT, Some(DS1),
               DATA_MARKER
                 \o to_text(Payload(
                        JArr(<< JArr(<< Flight(JStr(Regular), JArr(<< >>), JNull),
                                        Priced(JInt(299)) >>),
                                JArr(<< Flight(JStr(Regular), JArr(<< >>), JNull),
                                        Priced(JInt(120)) >>) >>),
                        EmptyReference))
                 \o SIDE_CHANNEL) >>
NoScriptPage == << Element(SCRIPT, None, << >>) >>
NoDataPage == << Element(SCRIPT, Some(DS1), Text(<<"x">>)) >>
Responses == { FlightsPage, NoScriptPage, NoDataPage }

\* A search that has not returned, and an error of fetch::fetch_html.
Pending == [kind |-> "Pending", result |-> None, detail |-> ""]
FetchFailed == [kind |-> "ConnectionFailed", result |-> None, detail |-> ""]

\* What a search returns: the error of the fetch, or what parse_html makes
\* of the page.
SearchReturns == {FetchFailed} \cup {parse_html(page) : page \in Responses}

\* A call of validate or of an encoder, with its request, recorded when it
\* is made; ok: validate returned Ok (TRUE for an encoder).
Call(op, q, ok) == [op |-> op, q |-> q, ok |-> ok]

\* A search task: flyr::search(SearchQuery::Structured(q), options).  Its
\* position: "called", "encoded" (to_url_params has returned), "fetching"
\* (fetch_html is called), "fetched" (the search has returned), "joined".
Task(q) == [q |-> q, pc |-> "called", result |-> Pending]

\* A mutation of btree_insert: a new key goes after the keys of the map.
btree_insert_last(map, key, value) ==
    IF \E i \in 1..Len(map) : map[i].key = key
    THEN [i \in 1..Len(map) |-> IF map[i].key = key THEN [map[i] EXCEPT !.value = value]
                                 ELSE map[i]]
    ELSE Append(map, [key |-> key, value |-> value])

\* BTreeMap::insert: the entries in key order; the value of a key that is
\* there is replaced.
btree_insert(map, key, value) ==
    IF \E i \in 1..Len(map) : map[i].key = key
    THEN [i \in 1..Len(map) |-> IF map[i].key = key THEN [map[i] EXCEPT !.value = value]
                                 ELSE map[i]]
    ELSE LET before == Cardinality({i \in 1..Len(map) : StringLess(map[i].key, key)})
         IN  SubSeq(map, 1, before) \o << [key |-> key, value |-> value] >>
               \o SubSeq(map, before + 1, Len(map))

\* SearchResult::default()
DefaultResult == [flights |-> << >>, metadata |-> [airlines |-> << >>, alliances |-> << >>]]

\* is_multi_dest, is_multi: the destination holds a comma.
IsMulti == run.multi

\* main and flyr_search with a comma in the destination: the loops over the
\* destinations and over the join set.
IsFanOut == run.entry \in {"cli", "mcp_search"} /\ IsMulti

Req == run.reqs[run.i]
LastDest == run.i = Len(run.reqs)

InitFront ==
    /\ run \in Runs
    /\ RequestIdle
    /\ DecoderIdle
    /\ CallIdle

\* main, one destination: --open (open_browser: the URL, then the browser
\* opens and the command exits, or open::that fails and the command dies).
CliOpenBrowser ==
    /\ run.entry = "cli" /\ run.pc = "start" /\ ~IsMulti
    /\ run.open
    /\ query' = Req
    /\ \E opened \in BOOLEAN :
          run' = [run EXCEPT !.calls = Append(@, Call("generate_browser_url", Req, TRUE)),
                             !.pc = IF opened THEN "exit" ELSE "die"]
    /\ UNCHANGED << verdict, wire, params, base, decoder_vars, call_vars >>

\* main, one destination: --url (the URL is printed, exit).
CliPrintUrl ==
    /\ run.entry = "cli" /\ run.pc = "start" /\ ~IsMulti
    /\ ~run.open /\ run.url
    /\ query' = Req
    /\ run' = [run EXCEPT !.calls = Append(@, Call("generate_browser_url", Req, TRUE)),
                          !.pc = "exit"]
    /\ UNCHANGED << verdict, wire, params, base, decoder_vars, call_vars >>

\* main, one destination: validate, then die or the call of flyr::search.
CliValidate ==
    /\ run.entry = "cli" /\ run.pc = "start" /\ ~IsMulti
    /\ ~run.open /\ ~run.url
    /\ query' = Req
    /\ \E overflow_checks \in BOOLEAN :
          LET v == validate(Req, overflow_checks)
          IN  /\ verdict' = v
              /\ run' = [run EXCEPT
                           !.calls = Append(@, Call("validate", Req, v.kind = "Ok")),
                           !.tasks = IF v.kind = "Ok" THEN << Task(Req) >> ELSE @,
                           !.pc = IF v.kind = "Ok" THEN "await" ELSE "die"]
    /\ UNCHANGED << wire, params, base, decoder_vars, call_vars >>

\* main, several destinations with --open: the URL of every destination is
\* generated, and printed (--url) or opened; then return.
CliOpenAll ==
    /\ run.entry = "cli" /\ run.pc = "start" /\ IsMulti /\ run.reqs # << >>
    /\ run.open
    /\ query' = Req
    /\ run' = [run EXCEPT !.calls = Append(@, Call("generate_browser_url", Req, TRUE)),
                          !.i = IF LastDest THEN @ ELSE @ + 1,
                          !.pc = IF LastDest THEN "exit" ELSE @]
    /\ UNCHANGED << verdict, wire, params, base, decoder_vars, call_vars >>

\* main, the loop over the destinations with --url: the URL of the first
\* destination is printed, exit.
CliFanOutUrl ==
    /\ run.entry = "cli" /\ run.pc = "start" /\ IsMulti /\ run.reqs # << >>
    /\ ~run.open /\ run.url
    /\ query' = Req
    /\ run' = [run EXCEPT !.calls = Append(@, Call("generate_browser_url", Req, TRUE)),
                          !.pc = "exit"]
    /\ UNCHANGED << verdict, wire, params, base, decoder_vars, call_vars >>

\* main, the loop over the destinations: validate; an error ends the loop
\* (die is called next, the tasks spawned so far go on beside it), else the
\* search task of this destination is spawned and the next one follows.
CliFanOut ==
    /\ run.entry = "cli" /\ run.pc = "start" /\ IsMulti /\ run.reqs # << >>
    /\ ~run.open /\ ~run.url
    /\ query' = Req
    /\ \E overflow_checks \in BOOLEAN :
          LET v == validate(Req, overflow_checks)
          IN  /\ verdict' = v
              /\ run' = [run EXCEPT
                           !.calls = Append(@, Call("validate", Req, v.kind = "Ok")),
                           !.tasks = IF v.kind = "Ok" THEN Append(@, Task(Req)) ELSE @,
                           !.i = IF v.kind = "Ok" /\ ~LastDest THEN @ + 1 ELSE @,
                           !.pc = IF v.kind # "Ok" THEN "invalid"
                                  ELSE IF LastDest THEN "await" ELSE @]
    /\ UNCHANGED << wire, params, base, decoder_vars, call_vars >>

\* die(&e, json_mode) in the loop over the destinations: the error is
\* printed and process::exit ends the command with the tasks it spawned.
CliDie ==
    /\ run.entry = "cli" /\ run.pc = "invalid"
    /\ run' = [run EXCEPT !.pc = "die"]
    /\ UNCHANGED << request_vars, decoder_vars, call_vars >>

\* flyr_search, one destination: validate, then tool_error or crate::search.
McpSearch ==
    /\ run.entry = "mcp_search" /\ run.pc = "start" /\ ~IsMulti
    /\ query' = Req
    /\ \E overflow_checks \in BOOLEAN :
          LET v == validate(Req, overflow_checks)
          IN  /\ verdict' = v
              /\ run' = [run EXCEPT
                           !.calls = Append(@, Call("validate", Req, v.kind = "Ok")),
                           !.tasks = IF v.kind = "Ok" THEN << Task(Req) >> ELSE @,
                           !.pc = IF v.kind = "Ok" THEN "await" ELSE "tool_error"]
    /\ UNCHANGED << wire, params, base, decoder_vars, call_vars >>

\* flyr_search, the loop over the destinations: validate; an error ends the
\* loop (tool_error is returned next, the tasks spawned so far go on beside
\* it), else the search task of this destination is spawned.
McpSearchFanOut ==
    /\ run.entry = "mcp_search" /\ run.pc = "start" /\ IsMulti /\ run.reqs # << >>
    /\ query' = Req
    /\ \E overflow_checks \in BOOLEAN :
          LET v == validate(Req, overflow_checks)
          IN  /\ verdict' = v
              /\ run' = [run EXCEPT
                           !.calls = Append(@, Call("validate", Req, v.kind = "Ok")),
                           !.tasks = IF v.kind = "Ok" THEN Append(@, Task(Req)) ELSE @,
                           !.i = IF v.kind = "Ok" /\ ~LastDest THEN @ + 1 ELSE @,
                           !.pc = IF v.kind # "Ok" THEN "invalid"
                                  ELSE IF LastDest THEN "await" ELSE @]
    /\ UNCHANGED << wire, params, base, decoder_vars, call_vars >>

\* return tool_error(..) in the loop over the destinations: the message is
\* formatted and returned; the join set is dropped.
McpToolError ==
    /\ run.entry = "mcp_search" /\ run.pc = "invalid"
    /\ run' = [run EXCEPT !.pc = "tool_error"]
    /\ UNCHANGED << request_vars, decoder_vars, call_vars >>

\* flyr_get_url, one destination or the loop over the destinations:
\* validate, then tool_error or the URL of this destination.
McpGetUrl ==
    /\ run.entry = "mcp_get_url" /\ run.pc = "start" /\ run.reqs # << >>
    /\ query' = Req
    /\ \E overflow_checks \in BOOLEAN :
          LET v == validate(Req, overflow_checks)
              validated == Append(run.calls, Call("validate", Req, v.kind = "Ok"))
          IN  /\ verdict' = v
              /\ run' = [run EXCEPT
                           !.calls = IF v.kind = "Ok"
                                     THEN Append(validated,
                                                 Call("generate_browser_url", Req, TRUE))
                                     ELSE validated,
                           !.i = IF v.kind = "Ok" /\ ~LastDest THEN @ + 1 ELSE @,
                           !.pc = IF v.kind # "Ok" THEN "tool_error"
                                  ELSE IF LastDest THEN "done" ELSE @]
    /\ UNCHANGED << wire, params, base, decoder_vars, call_vars >>

\* main, flyr_search and flyr_get_url with a comma and no destination: the
\* loop over the destinations has no turn.  With --open the command
\* returns, flyr_get_url returns no URL, a search goes on to its join set.
NoDestination ==
    /\ run.entry \in {"cli", "mcp_search", "mcp_get_url"} /\ run.pc = "start"
    /\ IsMulti /\ run.reqs = << >>
    /\ run' = [run EXCEPT !.pc = IF run.entry = "cli" /\ run.open THEN "exit"
                                 ELSE IF run.entry = "mcp_get_url" THEN "done"
                                 ELSE "await"]
    /\ UNCHANGED << request_vars, decoder_vars, call_vars >>

\* A caller of the library calls search with its request.
LibSearch ==
    /\ run.entry = "lib_search" /\ run.pc = "start"
    /\ query' = Req
    /\ run' = [run EXCEPT !.tasks = << Task(Req) >>, !.pc = "await"]
    /\ UNCHANGED << verdict, wire, params, base, decoder_vars, call_vars >>

\* A caller of the library calls generate_browser_url with its request.
LibGenerateUrl ==
    /\ run.entry = "lib_url" /\ run.pc = "start"
    /\ query' = Req
    /\ run' = [run EXCEPT !.calls = Append(@, Call("generate_browser_url", Req, TRUE)),
                          !.pc = "done"]
    /\ UNCHANGED << verdict, wire, params, base, decoder_vars, call_vars >>

\* The process and the set of tasks are alive: no exit, no return yet.
\* After a validation error in the loop over the destinations the process
\* is alive until die has exited.  The MCP server lives on when tool_error
\* has returned: dropping the join set only requests the abort of its tasks,
\* and a task that is being polled goes on to its next await.
Alive ==
    \/ run.pc \in {"start", "await", "invalid"}
    \/ run.entry = "mcp_search" /\ run.pc = "tool_error"

\* pub async fn search, first statement: query.to_url_params().
SearchEncode ==
    /\ Alive
    /\ \E k \in 1..Len(run.tasks) :
          /\ run.tasks[k].pc = "called"
          /\ params' = Some(to_url_params(run.tasks[k].q))
          /\ run' = [run EXCEPT
                       !.calls = Append(@, Call("to_url_params", run.tasks[k].q, TRUE)),
                       !.tasks[k].pc = "encoded"]
    /\ UNCHANGED << query, verdict, wire, base, decoder_vars, call_vars >>

\* pub async fn search, second statement: fetch::fetch_html is called and
\* the request goes out.
SearchFetch ==
    /\ Alive
    /\ \E k \in 1..Len(run.tasks) :
          /\ run.tasks[k].pc = "encoded"
          /\ run' = [run EXCEPT !.tasks[k].pc = "fetching"]
    /\ UNCHANGED << request_vars, decoder_vars, call_vars >>

\* pub async fn search, second and third statement: fetch::fetch_html
\* returns an error or a page, which parse::parse_html decodes; the task
\* completes.
SearchReturn ==
    /\ Alive
    /\ \E k \in 1..Len(run.tasks) :
          /\ run.tasks[k].pc = "fetching"
          /\ \E result \in SearchReturns :
                run' = [run EXCEPT
                          !.tasks[k].pc = "fetched",
                          !.tasks[k].result = result,
                          !.done = Append(@, k)]
    /\ UNCHANGED << request_vars, decoder_vars, call_vars >>

\* One turn of "while let Some(join_result) = join_set.join_next().await":
\* the task that completed first among those not joined; its result, cut to
\* the top flights, or the default result of a failed search goes into the
\* map under its destination code (the CLI without --json only warns).
JoinNext ==
    /\ IsFanOut /\ run.pc = "await"
    /\ run.done # << >>
    /\ LET k == Head(run.done)
           dest_code == run.tasks[k].q.legs[1].to_airport
           search_result == run.tasks[k].result
           result == Unwrap(search_result.result)
           topped == IF run.top # None
                      THEN [result EXCEPT !.flights = apply_top(@, Unwrap(run.top))]
                      ELSE result
       IN  run' = [run EXCEPT
                     !.done = Tail(@),
                     !.tasks[k].pc = "joined",
                     !.results =
                        IF search_result.kind = "Ok"
                        THEN btree_insert(@, dest_code, topped)
                        ELSE IF run.entry = "mcp_search" \/ run.json
                        THEN btree_insert(@, dest_code, DefaultResult)
                        ELSE @]
    /\ UNCHANGED << request_vars, decoder_vars, call_vars >>

\* main, one destination, the match on flyr::search(..).await: the result,
\* cut to the top flights when asked for, is printed; an error goes to die.
CliSearched ==
    /\ run.entry = "cli" /\ ~IsMulti /\ run.pc = "await"
    /\ run.tasks[1].pc = "fetched"
    /\ LET search_result == run.tasks[1].result
           result == Unwrap(search_result.result)
       IN  run' = IF search_result.kind = "Ok"
                  THEN [run EXCEPT
                          !.out = Some(IF run.top # None
                                       THEN [result EXCEPT
                                               !.flights = apply_top(@, Unwrap(run.top))]
                                       ELSE result),
                          !.pc = "done"]
                  ELSE [run EXCEPT !.pc = "die"]
    /\ UNCHANGED << request_vars, decoder_vars, call_vars >>

\* flyr_search, one destination, the match on crate::search(..).await: the
\* result, cut to the top flights when asked for, is returned; an error is
\* returned as tool_error.
McpSearched ==
    /\ run.entry = "mcp_search" /\ ~IsMulti /\ run.pc = "await"
    /\ run.tasks[1].pc = "fetched"
    /\ LET search_result == run.tasks[1].result
           result == Unwrap(search_result.result)
       IN  run' = IF search_result.kind = "Ok"
                  THEN [run EXCEPT
                          !.out = Some(IF run.top # None
                                       THEN [result EXCEPT
                                               !.flights = apply_top(@, Unwrap(run.top))]
                                       ELSE result),
                          !.pc = "done"]
                  ELSE [run EXCEPT !.pc = "tool_error"]
    /\ UNCHANGED << request_vars, decoder_vars, call_vars >>

\* The library's search returns to its caller: the result or the error.
LibSearched ==
    /\ run.entry = "lib_search" /\ run.pc = "await"
    /\ run.tasks[1].pc = "fetched"
    /\ run' = [run EXCEPT !.out = run.tasks[1].result.result, !.pc = "done"]
    /\ UNCHANGED << request_vars, decoder_vars, call_vars >>

\* The loop over the join set has ended, every task is joined: the result
\* map is printed or returned.
Finish ==
    /\ IsFanOut /\ run.pc = "await"
    /\ \A k \in 1..Len(run.tasks) : run.tasks[k].pc = "joined"
    /\ run' = [run EXCEPT !.pc = "done"]
    /\ UNCHANGED << request_vars, decoder_vars, call_vars >>

NextFront ==
    \/ CliOpenBrowser \/ CliPrintUrl \/ CliValidate
    \/ CliOpenAll \/ CliFanOutUrl \/ CliFanOut \/ CliDie
    \/ McpSearch \/ McpSearchFanOut \/ McpToolError \/ McpGetUrl \/ NoDestination
    \/ LibSearch \/ LibGenerateUrl
    \/ SearchEncode \/ SearchFetch \/ SearchReturn
    \/ CliSearched \/ McpSearched \/ LibSearched \/ JoinNext \/ Finish

SpecFront == InitFront /\ [][NextFront]_vars

(***************************************************************************)
(* Properties of the decoder                                               *)
(***************************************************************************)

\* The node at a path of 0-based indices, if every step is inside an array.
RECURSIVE At(_, _)
At(v, path) ==
    IF path = << >> THEN Some(v)
    ELSE IF v.t = "arr" /\ path[1] < Len(v.a) THEN At(v.a[path[1] + 1], Tail(path))
    ELSE None

HasType(o, t) == o # None /\ o[1].t = t

\* parse_payload has been applied to the tree of input.
PayloadDecoded == input.kind = "tree" /\ output # NotDecoded
Tree == input.tree[1]

\* The results position holds an array: its entries.
HasResults == HasType(At(Tree, <<3, 0>>), "arr")
Results == At(Tree, <<3, 0>>)[1].a

\* The results position is null or absent.
ResultsAbsent ==
    \/ Tree.t # "arr"
    \/ Len(Tree.a) < 4
    \/ Tree.a[4].t # "arr"
    \/ Tree.a[4].a = << >>
    \/ Tree.a[4].a[1].t = "null"

NoMetadata == [airlines |-> << >>, alliances |-> << >>]

\* C12: when the results position is null or absent, parse_payload returns
\* Ok with an empty flight list; the tree of the end-to-end scenario decodes
\* to empty flight, airline and alliance lists.
C12_NullResults ==
    PayloadDecoded =>
        /\ ResultsAbsent => output.kind = "Ok" /\ output.result[1].flights = << >>
        /\ Tree = Payload(JNull, EmptyReference) => output = Decoded(<< >>, NoMetadata)

C12_Witness ==
    /\ PayloadDecoded
    /\ Tree = Payload(JNull, JArr(<< JArr(<< Pair(STAR, StarName) >>),
                                    JArr(<< Pair(AY, Finnair) >>) >>))
    /\ output.kind = "Ok"
    /\ output.result[1].metadata.airlines # << >>

\* A non-negative integer node.
IsCount(o) == HasType(o, "posint")

\* A segment entry has every mandatory part: both airport codes, both date
\* triples and the hour of both times.
SegmentComplete(sf) ==
    /\ HasType(At(sf, <<3>>), "str") /\ HasType(At(sf, <<6>>), "str")
    /\ \A d \in {20, 21} : \A i \in 0..2 : IsCount(At(sf, <<d, i>>))
    /\ \A t \in {8, 10} : IsCount(At(sf, <<t, 0>>))

\* The segment entries of a flight entry.
SegmentEntriesOf(k) ==
    IF HasType(At(k, <<0, 2>>), "arr") THEN At(k, <<0, 2>>)[1].a ELSE << >>

HasBrokenSegment(k) ==
    \E i \in 1..Len(SegmentEntriesOf(k)) : ~SegmentComplete(SegmentEntriesOf(k)[i])

\* The i-th least element of a set of numbers.
Nth(S, i) == CHOOSE x \in S : Cardinality({y \in S : y <= x}) = i

\* The entries of the results array that give a flight: the non-empty arrays.
Kept == {i \in 1..Len(Results) : Results[i].t = "arr" /\ Results[i].a # << >>}
Flights == output.result[1].flights

\* C13 as stated: an element of the results array with a segment that lacks
\* a mandatory part does not appear in the output; the call returns Ok.
C13_Original ==
    (PayloadDecoded /\ HasResults) =>
        /\ output.kind = "Ok"
        /\ Len(Flights) <= Cardinality({i \in 1..Len(Results) : ~HasBrokenSegment(Results[i])})

\* C13 amended: a segment that lacks a mandatory part does not appear among
\* the segments of its flight; the flight itself appears, with its other
\* segments.  Only an element that is no array or an empty array gives no
\* flight.  The call returns Ok.
C13_SegmentDropped ==
    (PayloadDecoded /\ HasResults) =>
        /\ output.kind = "Ok"
        /\ Len(Flights) = Cardinality(Kept)
        /\ \A j \in 1..Cardinality(Kept) :
              LET entries == SegmentEntriesOf(Results[Nth(Kept, j)])
              IN  Len(Flights[j].segments)
                    = Cardinality({m \in 1..Len(entries) : SegmentComplete(entries[m])})

C13_Witness ==
    /\ PayloadDecoded /\ HasResults
    /\ Len(Results) = 1 /\ Len(SegmentEntriesOf(Results[1])) = 2
    /\ SegmentComplete(SegmentEntriesOf(Results[1])[1])
    /\ ~SegmentComplete(SegmentEntriesOf(Results[1])[2])
    /\ Len(Flights) = 1 /\ Len(Flights[1].segments) = 1


\* The tree of input with other entries in its results array.
WithResults(rs) ==
    JArr(With(Tree.a, {<<3, JArr(With(Tree.a[4].a, {<<0, JArr(rs)>>}))>>}))

\* A flight entry without its incomplete segment entries.
Cleaned(k) ==
    IF HasType(At(k, <<0, 2>>), "arr")
    THEN JArr(With(k.a,
            {<<0, JArr(With(k.a[1].a,
                     {<<2, JArr(SelectSeq(SegmentEntriesOf(k), SegmentComplete))>>}))>>}))
    ELSE k

\* The results array without its undecodable entries.
CleanResults == [j \in 1..Cardinality(Kept) |-> Cleaned(Results[Nth(Kept, j)])]

\* C14: with an array at the results position parse_payload never fails on a
\* malformed flight or segment entry; the output is the one of the same tree
\* without its undecodable entries, every output flight is the decoding of
\* its own element alone, in source order, and the segments of a flight are
\* its decodable segment entries in source order.
C14_MalformedSkipped ==
    (PayloadDecoded /\ HasResults) =>
        /\ output.kind = "Ok"
        /\ output = parse_payload(WithResults(CleanResults))
        /\ Len(Flights) = Cardinality(Kept)
        /\ \A j \in 1..Cardinality(Kept) :
              LET k == Results[Nth(Kept, j)]
                  alone == parse_payload(WithResults(<< k >>))
                  good == SelectSeq(SegmentEntriesOf(k), SegmentComplete)
              IN  /\ alone.kind = "Ok"
                  /\ alone.result[1].flights = << Flights[j] >>
                  /\ Len(Flights[j].segments) = Len(good)
                  /\ \A m \in 1..Len(good) :
                        /\ Flights[j].segments[m].from_airport.code = good[m].a[4].s
                        /\ Flights[j].segments[m].to_airport.code = good[m].a[7].s

C14_Witness ==
    /\ PayloadDecoded /\ HasResults
    /\ Len(Results) = 2 /\ Kept = {2}
    /\ HasBrokenSegment(Results[2])
    /\ Len(SegmentEntriesOf(Results[2])) = 1
    /\ Len(Flights) = 1 /\ Flights[1].segments = << >>

C14_WitnessOrder ==
    /\ PayloadDecoded /\ HasResults
    /\ Kept = {1, 2} /\ Results[1] # Results[2]
    /\ Len(Flights[1].segments) = 1 /\ Len(Flights[2].segments) = 2


\* The string at an index of a segment entry, or the empty string.
TextOr(e, i) == IF HasType(At(e, <<i>>), "str") THEN At(e, <<i>>)[1].s ELSE << >>

\* A decoded segment has the codes of its entry and the defaults of the
\* optional parts the entry lacks.
SegmentDefaults(seg, e) ==
    /\ seg.from_airport = [code |-> e.a[4].s, name |-> TextOr(e, 4)]
    /\ seg.to_airport = [code |-> e.a[7].s, name |-> TextOr(e, 5)]
    /\ ~IsCount(At(e, <<8, 1>>)) => seg.departure.minute = U32(0)
    /\ ~IsCount(At(e, <<10, 1>>)) => seg.arrival.minute = U32(0)
    /\ ~IsCount(At(e, <<11>>)) => seg.duration_minutes = U32(0)
    /\ seg.aircraft = (IF HasType(At(e, <<17>>), "str") THEN Some(e.a[18].s) ELSE None)

\* C15: a segment entry with both airport codes, both date triples and the
\* hour of both times is always decoded: a missing or non-string airport
\* name gives an empty name, an hour-only time gives minute 0, a missing
\* duration gives 0 and a missing aircraft label gives an absent one.
C15_OptionalDefaults ==
    (PayloadDecoded /\ HasResults /\ output.kind = "Ok") =>
        \A j \in 1..Cardinality(Kept) :
            LET good == SelectSeq(SegmentEntriesOf(Results[Nth(Kept, j)]), SegmentComplete)
            IN  /\ j <= Len(Flights)
                /\ Len(Flights[j].segments) = Len(good)
                /\ \A m \in 1..Len(good) : SegmentDefaults(Flights[j].segments[m], good[m])

C15_Witness ==
    /\ PayloadDecoded /\ HasResults /\ output.kind = "Ok"
    /\ Len(Results) = 1 /\ Len(SegmentEntriesOf(Results[1])) = 1
    /\ LET e == SegmentEntriesOf(Results[1])[1]
       IN  /\ SegmentComplete(e)
           /\ ~HasType(At(e, <<4>>), "str")
           /\ Len(e.a[9].a) = 1
           /\ Len(Flights) = 1 /\ Len(Flights[1].segments) = 1
           /\ Flights[1].segments[1].from_airport.name = << >>
           /\ Flights[1].segments[1].departure.minute = U32(0)


\* The integer at a path, if the path holds one: a JSON integer of the
\* 64-bit signed range, the type of the three optional amounts.
IntegerAt(k, path) ==
    LET o == At(k, path)
    IN  IF HasType(o, "negint") THEN Some(I64(TRUE, o[1].mag))
        ELSE IF HasType(o, "posint") /\ o[1].mag[1] < 32768 THEN Some(I64(FALSE, o[1].mag))
        ELSE None

\* C16: the price, the emission estimate and the typical emission of a
\* flight are each present exactly when its own path (element[1][0][1],
\* element[0][22][7], element[0][22][8]) holds an integer, whatever the
\* other two paths hold; a missing price is absent, never 0.
C16_OptionalAmounts ==
    (PayloadDecoded /\ HasResults /\ output.kind = "Ok") =>
        /\ Len(Flights) = Cardinality(Kept)
        /\ \A j \in 1..Cardinality(Kept) :
              LET k == Results[Nth(Kept, j)]
              IN  /\ Flights[j].price = IntegerAt(k, <<1, 0, 1>>)
                  /\ Flights[j].carbon.emission_grams = IntegerAt(k, <<0, 22, 7>>)
                  /\ Flights[j].carbon.typical_grams = IntegerAt(k, <<0, 22, 8>>)

C16_Witness ==
    /\ PayloadDecoded /\ HasResults /\ output.kind = "Ok"
    /\ Len(Results) = 1 /\ Len(Flights) = 1
    /\ At(Results[1], <<1, 0, 1>>) = None
    /\ Flights[1].price = None
    /\ Flights[1].carbon.emission_grams = Some(I64(FALSE, Mag(14500)))
    /\ Flights[1].carbon.typical_grams = None

C16_WitnessPriceOnly ==
    /\ PayloadDecoded /\ HasResults /\ output.kind = "Ok"
    /\ Len(Flights) = 1
    /\ Flights[1].price = Some(I64(FALSE, Mag(0)))
    /\ Flights[1].carbon = [emission_grams |-> None, typical_grams |-> None]


\* An entry of a reference list gives a pair: its indices 0 and 1 hold strings.
IsPair(e) == HasType(At(e, <<0>>), "str") /\ HasType(At(e, <<1>>), "str")

\* The pairs of the reference list at a path, in order; none if the path
\* holds no array.
PairsAt(path) ==
    IF HasType(At(Tree, path), "arr")
    THEN LET entries == SelectSeq(At(Tree, path)[1].a, IsPair)
         IN  [i \in 1..Len(entries) |-> [code |-> entries[i].a[1].s, name |-> entries[i].a[2].s]]
    ELSE << >>

\* C17: the metadata pass never fails: the alliances are the pairs of
\* tree[7][1][0] and the airlines those of tree[7][1][1], one per entry with
\* strings at indices 0 and 1, in source order; an absent or non-array list
\* gives an empty list.  Each list depends on its own path only, and the
\* flights position has no part in either.
C17_Metadata ==
    PayloadDecoded =>
        /\ meta = Some([airlines |-> PairsAt(<<7, 1, 1>>), alliances |-> PairsAt(<<7, 1, 0>>)])
        /\ output.kind = "Ok" => output.result[1].metadata = meta[1]

C17_Witness ==
    /\ PayloadDecoded
    /\ output.kind = "JsParse"
    /\ ~HasType(At(Tree, <<7, 1, 0>>), "arr")
    /\ meta # None
    /\ meta[1].alliances = << >>
    /\ Len(At(Tree, <<7, 1, 1>>)[1].a) = 5
    /\ meta[1].airlines = << [code |-> AY, name |-> Finnair], [code |-> IB, name |-> Iberia] >>


\* parse_js has been applied to the script text of input.
JsParsed == input.kind = "js" /\ output # NotDecoded

\* The script text P data: J ,sideChannel S.
Marked(pre, tree, post) == pre \o DATA_MARKER \o to_text(tree) \o SIDE_CHANNEL \o post

\* C18 as stated: for a script text P data: J ,sideChannel S, where P holds
\* no marker and J is the text of a tree, parse_js returns that tree for
\* every S, an S with commas included.
C18_SliceBeforeSideChannel ==
    JsParsed =>
        \A pre \in Prefixes, tree \in JsTrees, post \in Suffixes :
            input.js = Marked(pre, tree, post) => output = ValueOk(tree)

\* What the code does: the tree is returned when S holds no comma.
C18_CommaFreeSuffix ==
    JsParsed =>
        \A pre \in Prefixes, tree \in JsTrees, post \in Suffixes :
            (input.js = Marked(pre, tree, post) /\ Occurrences(post, << 44 >>) = {})
                => output = ValueOk(tree)

\* The failing case: an S with a comma makes the slice run past the tree.
C18_WitnessComma ==
    /\ JsParsed
    /\ input.js = Marked(<< >>, Ints(<<1, 2, 3>>),
                         Text(<<":", "{", "a", ":", "1", ",", "b", ":", "2", "}", "}", ")", ";">>))
    /\ output = JsParse(SyntaxError)


\* parse_html has been applied to the document of input.
HtmlParsed == input.kind = "html" /\ output # NotDecoded

\* The elements of the document that are scripts of class ds:1.
Marks == {i \in 1..Len(input.doc) : input.doc[i].tag = SCRIPT /\ input.doc[i].class = Some(DS1)}

\* The text of the first of them.
MarkedScript == input.doc[Nth(Marks, 1)].text

\* The text between the first marker and the last comma after it, if both
\* are there.
Slice ==
    LET from == Nth(Occurrences(MarkedScript, DATA_MARKER), 1) + Len(DATA_MARKER)
        rest == SubSeq(MarkedScript, from, Len(MarkedScript))
        commas == Occurrences(rest, << 44 >>)
    IN  SubSeq(rest, 1, Nth(commas, Cardinality(commas)) - 1)

NoMarker == Occurrences(MarkedScript, DATA_MARKER) = {}
NoComma ==
    /\ ~NoMarker
    /\ LET from == Nth(Occurrences(MarkedScript, DATA_MARKER), 1) + Len(DATA_MARKER)
       IN  Occurrences(SubSeq(MarkedScript, from, Len(MarkedScript)), << 44 >>) = {}
NoTree == ~NoMarker /\ ~NoComma /\ from_str(Slice) = None

\* C19: parse_html fails in stages.  It returns ScriptTagNotFound exactly
\* when the document has no script element of class ds:1; otherwise it
\* returns JsParse with a detail when the script has no marker, no comma
\* after the marker, or a slice that is no tree; only otherwise is the
\* payload decoded.  The two conditions are distinct.
C19_Stages ==
    HtmlParsed =>
        /\ output.kind = "ScriptTagNotFound" <=> Marks = {}
        /\ Marks # {} =>
              IF NoMarker \/ NoComma \/ NoTree
              THEN output.kind = "JsParse" /\ output.detail # "" /\ output.result = None
              ELSE output = parse_payload(from_str(Slice)[1])
        /\ output.kind = "ScriptTagNotFound" => output.detail = ""

C19_Witness ==
    /\ HtmlParsed
    /\ Len(input.doc) = 2
    /\ input.doc[1].tag = SCRIPT /\ input.doc[1].class = Some(DS0)
    /\ Marks = {2} /\ NoMarker
    /\ output = JsParse("no 'data:' marker found")

C19_WitnessDecoded ==
    /\ HtmlParsed
    /\ Marks = {1, 2}
    /\ output = Decoded(<< >>, NoMetadata)


\* apply_top has cut the decoded flights to the first n by price.
TopApplied == output.kind = "Ok" /\ shown # None
Top == shown[1].flights

\* Order of 64-bit magnitudes and of signed prices.
MagBelow(a, b) == \E i \in 1..4 : a[i] < b[i] /\ \A j \in 1..(i - 1) : a[j] = b[j]
Below(p, q) ==
    IF p.neg # q.neg THEN p.neg
    ELSE IF p.neg THEN MagBelow(q.mag, p.mag)
    ELSE MagBelow(p.mag, q.mag)

\* Flight f is cheaper than flight g: f has a price and g has none or a
\* higher one.
Cheaper(f, g) == f.price # None /\ (g.price = None \/ Below(f.price[1], g.price[1]))

\* The ways to find the retained flights among the decoded ones.
Placements ==
    {pi \in [1..Len(Top) -> 1..Len(Flights)] :
        /\ \A i, j \in 1..Len(Top) : i # j => pi[i] # pi[j]
        /\ \A i \in 1..Len(Top) : Top[i] = Flights[pi[i]]}

Least2(a, b) == IF a <= b THEN a ELSE b

\* C20 as stated: apply_top with count N leaves min(N, number of flights)
\* flights in ascending price order, the flights without a price after all
\* priced ones; no removed flight is cheaper than a retained one, flights of
\* equal price keep their decode order, and N = 0 leaves none.
C20_CheapestFirst ==
    TopApplied =>
        /\ Len(Top) = Least2(shown[1].n, Len(Flights))
        /\ \A i, j \in 1..Len(Top) : i < j => ~Cheaper(Top[j], Top[i])
        /\ \E pi \in Placements :
              /\ \A i, j \in 1..Len(Top) :
                    (i < j /\ Top[i].price = Top[j].price) => pi[i] < pi[j]
              /\ \A r \in 1..Len(Flights) :
                    (\A i \in 1..Len(Top) : pi[i] # r)
                        => \A i \in 1..Len(Top) : ~Cheaper(Flights[r], Top[i])

\* The key apply_top sorts by: the price, or the greatest 64-bit value.
KeyOf(f) == IF f.price = None THEN I64(FALSE, <<32767, 65535, 65535, 65535>>) ELSE f.price[1]

\* What the code does: the same with the flights ordered by their key, so
\* that a flight priced at the greatest value counts as one without price.
C20_BySortKey ==
    TopApplied =>
        /\ Len(Top) = Least2(shown[1].n, Len(Flights))
        /\ \A i, j \in 1..Len(Top) : i < j => ~Below(KeyOf(Top[j]), KeyOf(Top[i]))
        /\ \E pi \in Placements :
              /\ \A i, j \in 1..Len(Top) :
                    (i < j /\ KeyOf(Top[i]) = KeyOf(Top[j])) => pi[i] < pi[j]
              /\ \A r \in 1..Len(Flights) :
                    (\A i \in 1..Len(Top) : pi[i] # r)
                        => \A i \in 1..Len(Top) : ~Below(KeyOf(Flights[r]), KeyOf(Top[i]))

\* The failing case: a flight without price is shown before a priced one.
C20_WitnessSentinel ==
    /\ TopApplied
    /\ Len(Flights) = 2 /\ shown[1].n = 1
    /\ Flights[1].price = None /\ Flights[2].price # None
    /\ Top = << Flights[1] >>


(***************************************************************************)
(* Properties of the front ends                                            *)
(***************************************************************************)

Encoders == {"to_url_params", "generate_browser_url"}

\* The i-th call of the run is an encoding that no successful validation of
\* the same request precedes.
Unguarded(i) ==
    /\ run.calls[i].op \in Encoders
    /\ ~\E j \in 1..(i - 1) :
          /\ run.calls[j].op = "validate"
          /\ run.calls[j].q = run.calls[i].q
          /\ run.calls[j].ok

\* C11 as stated: on every path of the search command, of the MCP tools and
\* of the library's search, an encoder (to_url_params or the generation of
\* the browser URL) is called on a request only after validate has returned
\* Ok for this request, the --url and --open paths included.
C11_ValidatedBeforeEncoded ==
    \A i \in 1..Len(run.calls) : ~Unguarded(i)

\* What the code does: the tools of the MCP server, and the search command
\* without --open and --url, validate every request before they encode it.
C11_GuardedEntries ==
    (run.entry \in {"mcp_search", "mcp_get_url"} \/ (run.entry = "cli" /\ ~run.open /\ ~run.url))
        => \A i \in 1..Len(run.calls) : ~Unguarded(i)

\* The failing case: the search command with --url prints the URL of a
\* request that validate rejects.
C11_WitnessInvalidEncoded ==
    /\ run.entry = "cli" /\ run.url /\ ~run.open
    /\ run.pc = "exit"
    /\ Len(run.calls) = 1
    /\ run.calls[1].op = "generate_browser_url"
    /\ validate(run.calls[1].q, FALSE).kind = "InvalidAirport"


(***************************************************************************)
(* Further properties of the validator                                     *)
(***************************************************************************)

LegsValid ==
    /\ query.legs # << >> /\ AllAirportsValid
    /\ \A i \in LegIndices :
          WellShaped(query.legs[i].date) /\ CalendarDate(query.legs[i].date)

\* C21 as stated: no request with adults = 0 passes validate.
C21_Original ==
    (Validated /\ query.passengers.adults = 0) => verdict.kind # "Ok"

\* C21 amended: with adults = 0 a request with an infant on lap never passes
\* validate; a request without one passes when its legs are valid and its
\* children and infants in seat are 1 to 9 together.
C21_AdultsZero ==
    (Validated /\ query.passengers.adults = 0) =>
        /\ query.passengers.infants_on_lap >= 1 => verdict.kind # "Ok"
        /\ ( /\ query.passengers.infants_on_lap = 0
             /\ LegsValid
             /\ TotalWithin(query.passengers, 1, 9) ) => verdict.kind = "Ok"

C21_Witness ==
    /\ Validated
    /\ query.passengers = Passengers(0, 1, 0, 0)
    /\ verdict.kind = "Ok"


(***************************************************************************)
(* proto.rs and parse.rs: the helper functions called on their own, with   *)
(* arguments of the full width of their types                              *)
(***************************************************************************)

\* value >> 7 on a u64 kept as four 16-bit limbs, most significant first.
Shr7(v) ==
    << v[1] \div 128,
       (v[2] \div 128) + (v[1] % 128) * 512,
       (v[3] \div 128) + (v[2] % 128) * 512,
       (v[4] \div 128) + (v[3] % 128) * 512 >>

\* A mutation of encode_varint_u64: the value is cut to its low 32 bits.
RECURSIVE encode_varint_u32(_, _)
encode_varint_u32(value, buf) ==
    LET low == << 0, 0, value[3], value[4] >>
        byte == low[4] % 128
        rest == Shr7(low)
    IN  IF rest = Zero64 THEN Append(buf, byte)
        ELSE encode_varint_u32(rest, Append(buf, byte + 128))

\* fn encode_varint(mut value: u64, buf: &mut Vec<u8>) for every u64 value:
\* encode_varint above is the same loop for values below 2^31.
RECURSIVE encode_varint_u64(_, _)
encode_varint_u64(value, buf) ==
    LET byte == value[4] % 128
        rest == Shr7(value)
    IN  IF rest = Zero64 THEN Append(buf, byte)
        ELSE encode_varint_u64(rest, Append(buf, byte + 128))

\* 2^k as a u64, for k in 0..63.
Pow2(k) ==
    LET limb == 4 - (k \div 16)
        bit == 2 ^ (k % 16)
    IN  [i \in 1..4 |-> IF i = limb THEN bit ELSE 0]

\* 2^k - 1 as a u64, for k in 1..64.
Pow2Less1(k) ==
    [i \in 1..4 |->
        LET low == 16 * (4 - i)
        IN  IF k >= low + 16 THEN 65535
            ELSE IF k > low THEN 2 ^ (k - low) - 1
            ELSE 0]

\* The values around every change of the number of bytes, and a few others.
VarintValues ==
    { Pow2(7 * g) : g \in 0..9 }
      \cup { Pow2Less1(7 * g) : g \in 1..9 }
      \cup { Zero64, Pow2Less1(64), Pow2Less1(63), Pow2(32), Pow2Less1(32), Pow2(31),
             Mag(300), Mag(150), << 4660, 22136, 37035, 52719 >>, << 0, 1, 0, 5 >> }

VarintBuffers == { << >>, << 0 >>, << 255, 128 >>, << 8, 1, 16, 127 >> }

\* What an accessor is applied to: values that are no array, and arrays of
\* values of every kind.
AccessorNodes ==
    { JNull, JBool(TRUE), JInt(5), JInt(0 - 5), JFloat, JStr(HEL), JStr(<< >>),
      JObj(<< JStr(HEL), JInt(1) >>), JArr(<< >>),
      JArr(<< JNull, JBool(FALSE), JInt(0), JInt(299), JInt(0 - 1), JFloat >>),
      JArr(<< JStr(HEL), JStr(<< >>), JArr(<< >>), JArr(<< JInt(1) >>),
              JObj(<< >>), JPos(<< 32768, 0, 0, 0 >>) >>),
      JArr(<< JPos(<< 32767, 65535, 65535, 65535 >>), JPos(<< 0, 1, 0, 0 >>),
              JPos(<< 0, 0, 65535, 65535 >>), JPos(<< 0, 1, 0, 5 >>),
              JNeg(<< 32768, 0, 0, 0 >>), JPos(<< 65535, 65535, 65535, 65535 >>) >>) }

MaxIndex == 7

VarintCall(value, buf) ==
    [fn |-> "encode_varint", value |-> value, buf |-> buf, node |-> << >>, idx |-> 0]
AccessorCall(fn, node, idx) ==
    [fn |-> fn, value |-> Zero64, buf |-> << >>, node |-> Some(node), idx |-> idx]

Calls ==
    { VarintCall(value, buf) : value \in VarintValues, buf \in VarintBuffers }
      \cup { AccessorCall(fn, node, idx) :
               fn \in {"get_val", "get_str", "get_i64", "get_u32"},
               node \in AccessorNodes, idx \in 0..MaxIndex }

Returned(buf, val) == [returned |-> TRUE, buf |-> buf, val |-> val]

InitCall ==
    /\ call \in Calls
    /\ ret = NotReturned
    /\ RequestIdle
    /\ DecoderIdle
    /\ run = NoRun

\* encode_varint(value, &mut buf)
EncodeVarint ==
    /\ call.fn = "encode_varint" /\ ret = NotReturned
    /\ ret' = Returned(encode_varint_u64(call.value, call.buf), None)
    /\ UNCHANGED << call, request_vars, decoder_vars, run >>

\* get_val(val, idx)
GetVal ==
    /\ call.fn = "get_val" /\ ret = NotReturned
    /\ ret' = Returned(<< >>, get_val(Unwrap(call.node), call.idx))
    /\ UNCHANGED << call, request_vars, decoder_vars, run >>

\* get_str(val, idx)
GetStr ==
    /\ call.fn = "get_str" /\ ret = NotReturned
    /\ ret' = Returned(<< >>, get_str(Unwrap(call.node), call.idx))
    /\ UNCHANGED << call, request_vars, decoder_vars, run >>

\* get_i64(val, idx)
GetI64 ==
    /\ call.fn = "get_i64" /\ ret = NotReturned
    /\ ret' = Returned(<< >>, get_i64(Unwrap(call.node), call.idx))
    /\ UNCHANGED << call, request_vars, decoder_vars, run >>

\* get_u32(val, idx)
GetU32 ==
    /\ call.fn = "get_u32" /\ ret = NotReturned
    /\ ret' = Returned(<< >>, get_u32(Unwrap(call.node), call.idx))
    /\ UNCHANGED << call, request_vars, decoder_vars, run >>

NextCall == EncodeVarint \/ GetVal \/ GetStr \/ GetI64 \/ GetU32

SpecCall == InitCall /\ [][NextCall]_vars


(***************************************************************************)
(* Properties of the helper functions                                      *)
(***************************************************************************)

VarintReturned == call.fn = "encode_varint" /\ ret.returned

\* The bytes the call appended to the buffer.
Appended == SubSeq(ret.buf, Len(call.buf) + 1, Len(ret.buf))

\* acc * 128 + group on four 16-bit limbs, with the carry out of the top one.
Shl7Add(acc, group) ==
    LET t4 == acc[4] * 128 + group
        t3 == acc[3] * 128 + (t4 \div 65536)
        t2 == acc[2] * 128 + (t3 \div 65536)
        t1 == acc[1] * 128 + (t2 \div 65536)
    IN  [mag |-> << t1 % 65536, t2 % 65536, t3 % 65536, t4 % 65536 >>,
         carry |-> t1 \div 65536]

\* The value of the 7-bit groups of bytes, least significant group first;
\* fits is false when it needs more than 64 bits.
RECURSIVE Reassemble(_)
Reassemble(bytes) ==
    IF bytes = << >> THEN [mag |-> << 0, 0, 0, 0 >>, fits |-> TRUE]
    ELSE LET higher == Reassemble(Tail(bytes))
             sum == Shl7Add(higher.mag, bytes[1] % 128)
         IN  [mag |-> sum.mag, fits |-> higher.fits /\ sum.carry = 0]

\* C23: for every u64 value encode_varint returns after appending 1 to 10
\* bytes and leaves the bytes already in the buffer as they were; every
\* appended byte but the last has bit 7 set, the last has it clear; the low
\* 7 bits of the appended bytes, least significant group first, give the
\* value; the value 0 appends the single byte 0.
C23_Varint ==
    VarintReturned =>
        /\ Len(ret.buf) >= Len(call.buf)
        /\ SubSeq(ret.buf, 1, Len(call.buf)) = call.buf
        /\ Len(Appended) \in 1..10
        /\ \A i \in 1..Len(Appended) : Appended[i] \in 0..255
        /\ \A i \in 1..(Len(Appended) - 1) : Appended[i] >= 128
        /\ Appended[Len(Appended)] < 128
        /\ Reassemble(Appended) = [mag |-> call.value, fits |-> TRUE]
        /\ call.value = << 0, 0, 0, 0 >> => Appended = << 0 >>

C23_Witness ==
    /\ VarintReturned
    /\ call.value = << 65535, 65535, 65535, 65535 >>
    /\ call.buf = << 255, 128 >>
    /\ ret.buf = << 255, 128, 255, 255, 255, 255, 255, 255, 255, 255, 255, 1 >>


AccessorReturned == call.fn \in {"get_val", "get_str", "get_i64", "get_u32"} /\ ret.returned

Parent == call.node[1]
InBounds == Parent.t = "arr" /\ call.idx < Len(Parent.a)
Node == Parent.a[call.idx + 1]

\* The node is an integer of the signed 64-bit / unsigned 32-bit range.
FitsI64(n) == n.t = "negint" \/ (n.t = "posint" /\ n.mag[1] < 32768)
FitsU32(n) == n.t = "posint" /\ n.mag[1] = 0 /\ n.mag[2] = 0

\* What an accessor returns by the rule of C25: the value of the node when
\* the parent is an array, the index is in bounds and the node has the type
\* asked for; absent otherwise.
Expected ==
    IF ~InBounds THEN None
    ELSE IF call.fn = "get_val" THEN Some(Node)
    ELSE IF call.fn = "get_str" THEN (IF Node.t = "str" THEN Some(Node.s) ELSE None)
    ELSE IF call.fn = "get_i64"
    THEN (IF FitsI64(Node) THEN Some([neg |-> Node.t = "negint", mag |-> Node.mag]) ELSE None)
    ELSE (IF FitsU32(Node) THEN Some([hi |-> Node.mag[3], lo |-> Node.mag[4]]) ELSE None)

\* C25 as stated: each positional accessor returns, and returns absent when
\* the parent is no array, the index is out of bounds or the node has not
\* the type asked for; otherwise it returns exactly the value of the node.
C25_Accessors ==
    AccessorReturned => ret.val = Expected

\* What the code does: the rule holds for get_val, get_str and get_i64, and
\* for get_u32 except on a non-negative integer of more than 32 bits.
C25_ExceptWideU32 ==
    (AccessorReturned
        /\ ~(call.fn = "get_u32" /\ InBounds /\ Node.t = "posint" /\ ~FitsU32(Node)))
        => ret.val = Expected

\* The failing case: get_u32 on 4294967296 + 5 returns 5.
C25_WitnessWrapped ==
    /\ call.fn = "get_u32" /\ ret.returned
    /\ InBounds /\ Node = JPos(<< 0, 1, 0, 5 >>)
    /\ ret.val = Some(U32(5))


(***************************************************************************)
(* The numbers of the decoder                                              *)
(***************************************************************************)

\* A non-negative integer of at most 32 bits at a path.
Fits32At(e, path) ==
    HasType(At(e, path), "posint") /\ At(e, path)[1].mag[1] = 0 /\ At(e, path)[1].mag[2] = 0

\* The number at a path as the decoder's 32-bit value.
Number32At(e, path) == [hi |-> At(e, path)[1].mag[3], lo |-> At(e, path)[1].mag[4]]

\* An optional number: what the path holds if it fits, 0 otherwise.
Number32Or0(e, path) == IF Fits32At(e, path) THEN Number32At(e, path) ELSE U32(0)

\* A segment entry whose mandatory parts are there, its mandatory numbers
\* within 32 bits.
SegmentExact(e) ==
    /\ HasType(At(e, <<3>>), "str") /\ HasType(At(e, <<6>>), "str")
    /\ \A d \in {20, 21} : \A i \in 0..2 : Fits32At(e, <<d, i>>)
    /\ \A t \in {8, 10} : Fits32At(e, <<t, 0>>)

DateTimeOf(e, date, time) ==
    [year |-> Number32At(e, <<date, 0>>), month |-> Number32At(e, <<date, 1>>),
     day |-> Number32At(e, <<date, 2>>), hour |-> Number32At(e, <<time, 0>>),
     minute |-> Number32Or0(e, <<time, 1>>)]

\* C26 as stated: every year, month, day, hour, minute and duration the
\* decoder emits is the integer of the source tree; a source integer of
\* more than 32 bits counts as absent (the segment is dropped if the number
\* is mandatory) and is never emitted modulo 2^32.
C26_NoWrappedNumber ==
    (PayloadDecoded /\ HasResults /\ output.kind = "Ok") =>
        \A j \in 1..Cardinality(Kept) :
            LET exact == SelectSeq(SegmentEntriesOf(Results[Nth(Kept, j)]), SegmentExact)
            IN  /\ j <= Len(Flights)
                /\ Len(Flights[j].segments) = Len(exact)
                /\ \A m \in 1..Len(exact) :
                      /\ Flights[j].segments[m].departure = DateTimeOf(exact[m], 20, 8)
                      /\ Flights[j].segments[m].arrival = DateTimeOf(exact[m], 21, 10)
                      /\ Flights[j].segments[m].duration_minutes
                            = Number32Or0(exact[m], <<11>>)

\* The failing case: the year 4294967296 + 5 is emitted as 5.
C26_WitnessWrapped ==
    /\ PayloadDecoded /\ HasResults /\ output.kind = "Ok"
    /\ Len(Results) = 1 /\ Len(SegmentEntriesOf(Results[1])) = 1
    /\ At(SegmentEntriesOf(Results[1])[1], <<20, 0>>) = Some(JPos(<< 0, 1, 0, 5 >>))
    /\ Len(Flights) = 1 /\ Len(Flights[1].segments) = 1
    /\ Flights[1].segments[1].departure.year = U32(5)


(***************************************************************************)
(* The passenger total over the full range of the counts                   *)
(***************************************************************************)

\* C27: for all 32-bit counts validate returns Ok only if the true sum of
\* the four counts is 1..9; the total does not wrap modulo 2^32 and the
\* addition does not abort the call.
C27_TrueSum ==
    Validated =>
        /\ verdict.kind # "Panic"
        /\ verdict.kind = "Ok" => TotalWithin(query.passengers, 1, 9)

\* The failing cases: the sum 2^32 + 1 accepted as 1, and the aborted call.
C27_WitnessWrapped ==
    /\ query.passengers = Passengers(2147483647, 2147483647, 3, 0)
    /\ verdict.kind = "Ok"

C27_WitnessAborted ==
    /\ query.passengers = Passengers(2147483647, 2147483647, 3, 0)
    /\ verdict.kind = "Panic"


(***************************************************************************)
(* When parse_payload fails                                                *)
(***************************************************************************)

\* The results position holds a node that is neither null nor an array.
ResultsMistyped ==
    /\ At(Tree, <<3, 0>>) # None
    /\ At(Tree, <<3, 0>>)[1].t \notin {"null", "arr"}

\* C28: parse_payload returns an error exactly when tree[3][0] is present,
\* not null and not an array (a string, a number, a boolean, an object);
\* for every other parsed tree it returns Ok.
C28_ErrorExactly ==
    PayloadDecoded =>
        /\ output.kind \in {"Ok", "JsParse"}
        /\ output.kind = "JsParse" <=> ResultsMistyped

C28_Witness ==
    /\ PayloadDecoded
    /\ At(Tree, <<3, 0>>) = Some(JObj(<< >>))
    /\ output = JsParse("payload[3][0] is not an array")

C28_WitnessOk ==
    /\ PayloadDecoded
    /\ Tree = JObj(<< JStr(HEL), JNull >>)
    /\ output.kind = "Ok"


(***************************************************************************)
(* Reading back what the encoder wrote                                     *)
(***************************************************************************)

\* The reference reader consumes the bytes exactly: every field is read and
\* the last one ends at the last byte.
ReadExactly(bytes) ==
    LET fs == ReadFields(bytes)
    IN  IF bytes = << >> THEN fs = << >>
        ELSE /\ fs # << >>
             /\ fs[Len(fs)] # Malformed
             /\ fs[Len(fs)].to = Len(bytes)

\* The fields numbered n with wire type w, in the order read.
FieldsOf(fs, n, w) == SelectSeq(fs, LAMBDA f : f.field = n /\ f.wire = w)

\* The varints of a packed payload (Malformed ones end the list with -1).
RECURSIVE ReadPackedFrom(_, _)
ReadPackedFrom(bytes, pos) ==
    IF pos > Len(bytes) THEN << >>
    ELSE LET v == ReadVarint(bytes, pos)
         IN  IF v.next = 0 THEN << -1 >>
             ELSE << v.value >> \o ReadPackedFrom(bytes, v.next)

NotRead == [ok |-> FALSE, value |-> << >>]
ReadAs(value) == [ok |-> TRUE, value |-> value]

\* The code of an airport submessage.
ReadAirport(payload) ==
    LET fs == ReadFields(payload)
    IN  IF ReadExactly(payload) /\ Len(fs) = 1 /\ fs[1].field = 2 /\ fs[1].wire = 2
        THEN ReadAs(fs[1].payload) ELSE NotRead

\* The leg of a leg submessage; the airline list is the list of the fields 6.
ReadLeg(payload) ==
    LET fs == ReadFields(payload)
        dates == FieldsOf(fs, 2, 2)
        stops == FieldsOf(fs, 5, 0)
        airlines == FieldsOf(fs, 6, 2)
        origins == FieldsOf(fs, 13, 2)
        destinations == FieldsOf(fs, 14, 2)
    IN  IF /\ ReadExactly(payload)
           /\ Len(dates) = 1 /\ Len(stops) <= 1 /\ Len(origins) = 1 /\ Len(destinations) = 1
           /\ Len(fs) = 3 + Len(stops) + Len(airlines)
           /\ ReadAirport(origins[1].payload).ok
           /\ ReadAirport(destinations[1].payload).ok
        THEN ReadAs([date |-> dates[1].payload,
                     max_stops |-> IF stops = << >> THEN None ELSE Some(stops[1].value),
                     airlines |-> [j \in 1..Len(airlines) |-> airlines[j].payload],
                     from_airport |-> ReadAirport(origins[1].payload).value,
                     to_airport |-> ReadAirport(destinations[1].payload).value])
        ELSE NotRead

CountOf(codes, c) == Cardinality({i \in 1..Len(codes) : codes[i] = c})

\* The request of an encoding.
ReadRequest(bytes) ==
    LET fs == ReadFields(bytes)
        legs == FieldsOf(fs, 3, 2)
        packed == FieldsOf(fs, 8, 2)
        cabins == FieldsOf(fs, 9, 0)
        trips == FieldsOf(fs, 19, 0)
        codes == IF packed = << >> THEN << >> ELSE ReadPackedFrom(packed[1].payload, 1)
    IN  IF /\ ReadExactly(bytes)
           /\ Len(packed) <= 1 /\ Len(cabins) = 1 /\ Len(trips) = 1
           /\ Len(fs) = Len(legs) + Len(packed) + 2
           /\ \A i \in 1..Len(legs) : ReadLeg(legs[i].payload).ok
           /\ \A i \in 1..Len(codes) : codes[i] \in 1..4
           /\ \E seat \in Seats : CabinCode(seat) = cabins[1].value
           /\ \E trip \in Trips : TripCode(trip) = trips[1].value
        THEN ReadAs([legs |-> [i \in 1..Len(legs) |-> ReadLeg(legs[i].payload).value],
                     passengers |-> Passengers(CountOf(codes, 1), CountOf(codes, 2),
                                               CountOf(codes, 3), CountOf(codes, 4)),
                     seat |-> CHOOSE seat \in Seats : CabinCode(seat) = cabins[1].value,
                     trip |-> CHOOSE trip \in Trips : TripCode(trip) = trips[1].value])
        ELSE NotRead

\* What the encoding can carry of a request: an absent airline list is an
\* empty one; language and currency are not encoded.
Carried(q) ==
    [legs |-> [i \in 1..Len(q.legs) |->
                 [q.legs[i] EXCEPT !.airlines = IF @ = None THEN << >> ELSE @[1]]],
     passengers |-> q.passengers, seat |-> q.seat, trip |-> q.trip]

FieldSet(fs) == {fs[i] : i \in 1..Len(fs)}

\* The length-delimited fields of an encoding, those of its leg and airport
\* submessages included.
Delimiteds(bytes) ==
    LET top == FieldsOf(ReadFields(bytes), 3, 2) \o FieldsOf(ReadFields(bytes), 8, 2)
        inLeg(leg) == SelectSeq(ReadFields(leg.payload), LAMBDA f : f.wire = 2)
        inAirport(leg) ==
            UNION { {a \in FieldSet(ReadFields(f.payload)) : a.wire = 2} :
                      f \in {g \in FieldSet(ReadFields(leg.payload)) : g.field \in {13, 14}} }
    IN  FieldSet(top)
          \cup UNION { FieldSet(inLeg(top[i])) \cup inAirport(top[i]) :
                         i \in {k \in 1..Len(top) : top[k].field = 3} }

\* C24: for every request, the reference reader consumes the output of
\* encode exactly and recovers the request: every length prefix (string,
\* airport submessage, leg submessage, packed passenger field) is the byte
\* count of its payload, also for payloads of 128 bytes and more, and the
\* legs (date, max-stops, airline codes in order, origin, destination), the
\* passenger counts, the cabin and the trip type read back are the inputs,
\* an absent airline list reading back as an empty one.
C24_RoundTrip ==
    wire # None =>
        /\ ReadRequest(wire[1]) = ReadAs(Carried(query))
        /\ \A f \in Delimiteds(wire[1]) :
              /\ f.value = Len(f.payload)
              /\ f.to - f.from + 1
                   = Len(encode_varint(f.field * 8 + 2, << >>))
                       + (IF f.value < 128 THEN 1 ELSE 2) + f.value

\* A leg with an airline code and an origin of 128 bytes and more, and a
\* packed passenger field of 128 bytes and more.
C24_Witness ==
    /\ wire # None
    /\ query.legs = << Leg(ymd(2026, 3, 1), Filled(LongText, 65), BCN, Some(1),
                           Some(<< IB, Filled(LongText, 65), AY >>)) >>
    /\ query.passengers = Passengers(EncodeCap, 0, 0, 0)
    /\ \E f \in Delimiteds(wire[1]) : f.field = 3 /\ f.value >= 128
    /\ \E f \in Delimiteds(wire[1]) : f.field = 13 /\ f.value >= 128
    /\ \E f \in Delimiteds(wire[1]) : f.field = 6 /\ f.value >= 128
    /\ \E f \in Delimiteds(wire[1]) : f.field = 8 /\ f.value >= 128

C24_WitnessAbsentAirlines ==
    /\ wire # None
    /\ Len(query.legs) = 2
    /\ query.legs[1].airlines = None /\ query.legs[2].airlines = Some(<< >>)
    /\ query.passengers = Passengers(1, 0, 0, 0)


(***************************************************************************)
(* Validation errors and the fetch                                         *)
(***************************************************************************)

\* validate has returned an error to the search: in the loop over the
\* destinations this is the moment the request fails validation ("invalid");
\* the search then ends with die (CLI) or tool_error (MCP).
Refused == \E i \in 1..Len(run.calls) : run.calls[i].op = "validate" /\ ~run.calls[i].ok

Rejected ==
    /\ run.entry \in {"cli", "mcp_search"}
    /\ Refused
    /\ run.pc \in {"invalid", "die", "tool_error"}

EndedInvalid ==
    /\ run.entry \in {"cli", "mcp_search"}
    /\ Refused
    /\ run.pc \in {"die", "tool_error"}

\* The tasks that have called fetch_html: the fetches that have started.
Fetches == {k \in 1..Len(run.tasks) : run.tasks[k].pc \in {"fetching", "fetched", "joined"}}

\* C30: a search that ends with a validation error has started no network
\* fetch: with one destination validate precedes the fetch, and with several
\* destinations no search task has been spawned for any destination at the
\* moment a later destination's request fails validation.
C30_NoFetchBeforeError ==
    Rejected => run.tasks = << >> /\ Fetches = {}

\* The part that holds: with one destination, and when the first destination
\* of several is the invalid one, nothing has been spawned or fetched.
C30_FirstDestination ==
    (Rejected /\ run.i = 1) => run.tasks = << >> /\ Fetches = {}

\* The failing case: the first destination's task is spawned before the
\* second destination's request fails validation; it encodes beside the
\* error handling and has called fetch_html when the search ends.
C30_WitnessFetched ==
    /\ EndedInvalid /\ run.i = 2
    /\ Len(run.tasks) = 1 /\ run.tasks[1].pc = "fetching"
    /\ run.calls = << Call("validate", run.reqs[1], TRUE),
                      Call("validate", run.reqs[2], FALSE),
                      Call("to_url_params", run.reqs[1], TRUE) >>
    /\ Fetches = {1}

\* The MCP tool has returned its error; the task of the first destination,
\* which was being polled, calls fetch_html and returns all the same.
C30_WitnessAfterReturn ==
    /\ EndedInvalid /\ run.entry = "mcp_search" /\ run.i = 2
    /\ run.calls = << Call("validate", run.reqs[1], TRUE),
                      Call("validate", run.reqs[2], FALSE),
                      Call("to_url_params", run.reqs[1], TRUE) >>
    /\ Len(run.tasks) = 1 /\ run.tasks[1].pc = "fetched"

\* The same with the search of the first destination over before the second
\* destination's request is validated.
C30_WitnessReturned ==
    /\ EndedInvalid /\ run.i = 2
    /\ Len(run.tasks) = 1 /\ run.tasks[1].pc = "fetched"
    /\ run.calls[Len(run.calls)] = Call("validate", run.reqs[2], FALSE)


(***************************************************************************)
(* The result map of a search with several destinations                    *)
(***************************************************************************)

Joined == {k \in 1..Len(run.tasks) : run.tasks[k].pc = "joined"}
Code(k) == run.tasks[k].q.legs[1].to_airport

\* No other task has the destination code of task k.
OnlyTaskOfCode(k) == \A j \in 1..Len(run.tasks) : j # k => Code(j) # Code(k)

\* The order of the codes: byte by byte, a prefix first.
RECURSIVE CodeBefore(_, _)
CodeBefore(a, b) ==
    IF b = << >> THEN FALSE
    ELSE IF a = << >> THEN TRUE
    ELSE Head(a) < Head(b) \/ (Head(a) = Head(b) /\ CodeBefore(Tail(a), Tail(b)))

\* The search of task k failed; it has an entry all the same (the default
\* result of the MCP tool and of the CLI with --json) or none.
Failed(k) == run.tasks[k].result.kind # "Ok"
Entered(k) == ~Failed(k) \/ run.entry = "mcp_search" \/ run.json

\* The entry of task k: its result, cut to the top flights when asked for.
EntryOf(k) ==
    LET result == run.tasks[k].result.result[1]
    IN  [key |-> Code(k),
         value |-> IF Failed(k) THEN DefaultResult
                   ELSE IF run.top = None THEN result
                   ELSE [result EXCEPT !.flights = apply_top(@, run.top[1])]]

ResultEntries == {run.results[i] : i \in 1..Len(run.results)}

\* C29: in a search with several destinations the result map is keyed by
\* destination code in sorted order with at most one entry per code; with
\* distinct codes its content is the same whatever the order in which the
\* tasks complete; a failed destination neither removes nor changes the
\* entry of another destination.
C29_ResultMap ==
    IsFanOut =>
        /\ \A i \in 1..(Len(run.results) - 1) :
              CodeBefore(run.results[i].key, run.results[i + 1].key)
        /\ \A e \in ResultEntries :
              \E k \in Joined : Entered(k) /\ e = EntryOf(k)
        /\ \A k \in Joined :
              OnlyTaskOfCode(k) =>
                  IF Entered(k) THEN EntryOf(k) \in ResultEntries
                  ELSE \A e \in ResultEntries : e.key # Code(k)

\* BKK, asked for first, has two flights; the search of BCN fails:
\* BCN's default entry comes first, BKK's cheapest flight is kept.
C29_Witness ==
    /\ IsFanOut /\ run.pc = "done"
    /\ run.entry = "cli" /\ run.json /\ run.top = Some(1)
    /\ Len(run.tasks) = 2 /\ Code(1) = BKK /\ Code(2) = BCN
    /\ run.tasks[1].result = parse_html(FlightsPage)
    /\ Len(run.tasks[1].result.result[1].flights) = 2
    /\ run.tasks[2].result = FetchFailed
    /\ Fetches = {1, 2}
    /\ Len(run.results) = 2
    /\ run.results[1] = [key |-> BCN, value |-> DefaultResult]
    /\ run.results[2].key = BKK
    /\ Len(run.results[2].value.flights) = 1
    /\ run.results[2].value.flights[1] = run.tasks[1].result.result[1].flights[2]

\* Without --json the failed destination has no entry; the other one's stays.
C29_WitnessWarned ==
    /\ IsFanOut /\ run.pc = "done"
    /\ run.entry = "cli" /\ ~run.json
    /\ Len(run.tasks) = 2 /\ Code(1) = BCN /\ Code(2) = BKK
    /\ Failed(2) /\ ~Failed(1)
    /\ Fetches = {1, 2}
    /\ run.results = << EntryOf(1) >>

\* The task spawned last completes first and is joined first.
C29_WitnessLastFirst ==
    /\ IsFanOut /\ run.pc = "await"
    /\ Len(run.tasks) = 2 /\ Code(1) = BCN /\ Code(2) = BKK
    /\ run.tasks[2].pc = "joined" /\ run.tasks[1].pc = "fetched"
    /\ run.done = << 1 >>
    /\ run.results = << EntryOf(2) >>

\* The same destination twice: one entry, that of the search joined last.
C29_WitnessSameCode ==
    /\ IsFanOut /\ run.pc = "done" /\ run.entry = "mcp_search"
    /\ Len(run.tasks) = 2 /\ Code(1) = Code(2)
    /\ ~Failed(1) /\ Failed(2)
    /\ run.results = << EntryOf(1) >>

====
